---- MODULE Spec2Model ----
(***************************************************************************)
(* AudioDownloader: the download stage of core/pipeline.py (Pipeline.run   *)
(* from the result list on, _download_collection, _download_track), the    *)
(* YouTube provider's lifting of a job result, and the yt-dlp job executor *)
(* (run_ytdlp, _request_stop) of providers/youtube/ytdlp_runner.py.        *)
(*                                                                         *)
(* Before that stage: the provider registry of providers/base.py          *)
(* (register_provider, get_provider, find_provider_for_source) and the     *)
(* head of Pipeline.run (provider selection, resolve, DownloadOptions).    *)
(*                                                                         *)
(* Spec and SpecFaulty are the download stage, SpecRegistry the registry   *)
(* helpers on their own, SpecRun a run from its first line to the options  *)
(* value.                                                                  *)
(*                                                                         *)
(* One worker thread runs the pipeline; the caller's thread only sets the  *)
(* cancellation Event; the child process writes lines and exits on its own *)
(* schedule.  Fractions are exact rationals <<num, den>>.                  *)
(***************************************************************************)
EXTENDS Integers, Sequences, FiniteSets, TLC

VARIABLES
    kind,        \* type of the resolved item: "track" | "collection"
    tracks,      \* the flattened Track list of the run
    overwrite,   \* DownloadOptions.overwrite
    hasCancel,   \* cancel_event is not None
    cancelSet,   \* cancel_event.is_set()
    cbMayRaise,  \* the caller's progress callback breaks its never-raise contract
    ppc,         \* position of Pipeline.run: "loop" | "item" | "returned" | "raised"
    idx,         \* 1-based index of the item in flight (0: none started yet)
    results,     \* the accumulated result list
    err,         \* exception that left Pipeline.run
    observed,    \* a pipeline-level check has seen the signal
    jpc,         \* position of run_ytdlp: "idle"|"start"|"read"|"grace1"|"grace2"|"wait"
    proc,        \* per item: state of its yt-dlp process "none"|"running"|"exited"
    rc,          \* exit status of the process of the item in flight
    pipe,        \* lines written by the child and not yet read
    written,     \* number of lines the child has written
    rawLines,    \* len(raw_lines)
    jcancelled,  \* run_ytdlp's local `cancelled`
    already,     \* run_ytdlp's local `already_downloaded`
    paths,       \* run_ytdlp's local `output_paths`
    signals,     \* stop signals sent to the process group, in order
    cancelAtStart, \* the handle was signalled when run_ytdlp was entered
    jres,        \* how the last run_ytdlp call ended
    lastEv,      \* the last ProgressEvent the caller's callback received
    env,         \* what the surroundings of the job may do: the lines a child can write,
                 \* how many, whether signal delivery can fail, whether logs are kept
    resolved,    \* the item provider.resolve returned
    cmdSource,   \* the source argument of the yt-dlp command of the item in flight
    cmdFormat,   \* its --audio-format, --audio-quality and -f arguments
    lost,        \* stop signals of the job whose delivery failed, in order
    lineLog,     \* the lines run_ytdlp has read in the job in flight
    evLog,       \* the events the caller's callback received during the job in flight
    registry,    \* _PROVIDER_REGISTRY: entries [key, prov] in insertion order
    regOp,       \* the last call of the registry API and how it ended
    request,     \* the PipelineRequest of the run: provider_id, source
    provider,    \* the provider Pipeline.run selected
    consulted,   \* keys of the providers whose can_handle the run's selection called
    resolveCalls, \* number of provider.resolve calls of the run
    options,     \* the DownloadOptions value of the run
    ui           \* the Tk front-end: its stop flag, worker threads, buttons and queue

vars == <<kind, tracks, overwrite, hasCancel, cancelSet, cbMayRaise, ppc, idx,
          results, err, observed, jpc, proc, rc, pipe, written, rawLines,
          jcancelled, already, paths, signals, cancelAtStart, jres, lastEv,
          env, ui, resolved, cmdSource, cmdFormat, lost, lineLog, evLog,
          registry, regOp, request, provider, consulted, resolveCalls, options>>

pipelineVars == <<ppc, idx, results, err, observed>>
jobLogVars == <<cmdSource, cmdFormat, lost, lineLog, evLog>>
jobVars == <<jpc, rc, pipe, written, rawLines, jcancelled, already, paths,
             signals, cancelAtStart, jres, jobLogVars>>
selectionVars == <<registry, regOp, request, provider, consulted, resolveCalls, options>>
inputVars == <<kind, tracks, resolved, env, ui, overwrite, hasCancel, cbMayRaise,
               selectionVars>>

(***************************************************************************)
(* Bounds and constants                                                    *)
(***************************************************************************)
MaxTracks == 3
MaxLines == 2
MaxJobLines == 3
MaxTokens == 3
MaxRuns == 3
PipeCap == 1
PctDen == 100

NoProgress == <<>>

Min(a, b) == IF a <= b THEN a ELSE b
Max(a, b) == IF a >= b THEN a ELSE b

(***************************************************************************)
(* Output lines.  A line is the sequence of its whitespace-separated       *)
(* tokens; the patterns of ytdlp_runner.py are searches over the tokens.   *)
(***************************************************************************)
\* "AUDIODL_PROGRESS:<n>" followed by "%": the number _PROGRESS_MARK_RE captures
MarkValue(tok) ==
    CASE tok = "AUDIODL_PROGRESS:10%" -> <<10>>
      [] tok = "AUDIODL_PROGRESS:50%" -> <<50>>
      [] tok = "AUDIODL_PROGRESS:150%" -> <<150>>
      [] OTHER -> <<>>

\* "<n>%": the number _PROGRESS_RE captures after "[download]"
PercentValue(tok) ==
    CASE tok = "10%" -> <<10>>
      [] tok = "20%" -> <<20>>
      [] tok = "50%" -> <<50>>
      [] OTHER -> <<>>

\* re.IGNORECASE on the words the patterns name
LowerTok(tok) ==
    CASE tok = "FILE:" -> "file:"
      [] tok = "[DOWNLOAD]" -> "[download]"
      [] tok = "HAS ALREADY BEEN DOWNLOADED" -> "has already been downloaded"
      [] tok = "ALREADY BEEN RECORDED IN THE ARCHIVE" -> "already been recorded in the archive"
      [] tok = "ALREADY IN ARCHIVE" -> "already in archive"
      [] OTHER -> tok

Least(S) == CHOOSE i \in S : \A j \in S : i <= j
Greatest(S) == CHOOSE i \in S : \A j \in S : j <= i

\* _PROGRESS_MARK_RE.search(line): re.search returns the leftmost match
MarkPositions(line) == {i \in 1..Len(line) : MarkValue(line[i]) # <<>>}
ProgressMark(line) ==
    IF MarkPositions(line) = {} THEN <<>> ELSE MarkValue(line[Least(MarkPositions(line))])

\* _PROGRESS_RE.search(line)
FallbackPositions(line) ==
    {i \in 1..(Len(line) - 1) : line[i] = "[download]" /\ PercentValue(line[i + 1]) # <<>>}
ProgressFallback(line) ==
    IF FallbackPositions(line) = {} THEN <<>>
    ELSE PercentValue(line[Least(FallbackPositions(line)) + 1])

\* the percent of the line's progress event: the marker, else the classic form
PctFallbackFirst(line) ==
    IF ProgressFallback(line) # <<>> THEN ProgressFallback(line) ELSE ProgressMark(line)
Pct(line) ==
    IF ProgressMark(line) # <<>> THEN ProgressMark(line) ELSE ProgressFallback(line)

\* _DEST_RE.search(line): everything after the first "Destination:", if not empty
DestPath(line) ==
    LET at == {i \in 1..Len(line) : line[i] = "Destination:"} IN
    IF at = {} \/ Least(at) = Len(line) THEN <<>>
    ELSE <<SubSeq(line, Least(at) + 1, Len(line))>>

\* _FILE_RE.search(line): everything after a leading "FILE:" (any case), if not empty
FilePath(line) ==
    IF Len(line) >= 2 /\ LowerTok(line[1]) = "file:" THEN <<Tail(line)>> ELSE <<>>

\* the paths one line appends to output_paths, in the order of the appends
PathsOf(line) == DestPath(line) \o FilePath(line)

\* _ALREADY_RE.search(line) or _ARCHIVE_RE.search(line)
ArchivePhrases == {"already been recorded in the archive", "already in archive"}
AlreadyOfUnlessPath(line) ==
    /\ PathsOf(line) = <<>>
    /\ \E i \in 1..Len(line) : LowerTok(line[i]) \in ArchivePhrases
AlreadyOfCaseSensitive(line) ==
    \/ \E i, j \in 1..Len(line) :
          i < j /\ line[i] = "[download]" /\ line[j] = "has already been downloaded"
    \/ \E i \in 1..Len(line) : line[i] \in ArchivePhrases
AlreadyOf(line) ==
    \/ \E i, j \in 1..Len(line) :
          /\ i < j
          /\ LowerTok(line[i]) = "[download]"
          /\ LowerTok(line[j]) = "has already been downloaded"
    \/ \E i \in 1..Len(line) : LowerTok(line[i]) \in ArchivePhrases

\* line.startswith("[ExtractAudio]") or line.startswith("[ffmpeg]")
PostOf(line) == line # <<>> /\ line[1] \in {"[ExtractAudio]", "[ffmpeg]"}

\* The lines a child writes in the download stage: one of each effect
Lines ==
    { <<"text">>,
      <<"AUDIODL_PROGRESS:50%">>,
      <<"AUDIODL_PROGRESS:150%">>,
      <<"Destination:", "a.mp3">>,
      <<"[download]", "a.mp3", "has already been downloaded">>,
      <<"[ExtractAudio]", "Destination:", "a.mp3">> }

\* The lines a child writes in the study of one job: repeated markers, both path
\* forms, repeated paths, the already-present phrasings in either case and inside
\* other text, a path and a phrasing on one line, a percent on a postprocess line
JobLines ==
    { <<"text">>,
      <<"AUDIODL_PROGRESS:10%", "AUDIODL_PROGRESS:50%">>,
      <<"[ffmpeg]", "AUDIODL_PROGRESS:50%">>,
      <<"Destination:", "a.mp3">>,
      <<"FILE:", "a.mp3">>,
      <<"text", "ALREADY BEEN RECORDED IN THE ARCHIVE", "text">>,
      <<"file:", "b.mp3", "already been recorded in the archive">> }

\* every line of at most MaxTokens of the words the patterns look for
LineTokens ==
    {"text", "AUDIODL_PROGRESS:10%", "AUDIODL_PROGRESS:50%", "[download]", "20%",
     "[ffmpeg]", "Destination:"}

LineSpace == UNION {[1..n -> LineTokens] : n \in 0..MaxTokens}

\* the lines of the children of a Collection's Tracks
FlattenLines == {<<"text">>, <<"AUDIODL_PROGRESS:50%">>}

\* the lines a child can write, by the name the surroundings carry
LinesOf(name) ==
    CASE name = "Lines" -> Lines
      [] name = "JobLines" -> JobLines
      [] name = "LineSpace" -> LineSpace
      [] name = "FlattenLines" -> FlattenLines

ExitCodes == {0, 1}

(***************************************************************************)
(* Pure helpers                                                            *)
(***************************************************************************)
\* Pipeline._is_cancelled
IsCancelledNever(has, set) == FALSE
IsCancelled(has, set) == has /\ set

\* run_ytdlp's per-line check: cancel_event is not None and cancel_event.is_set()
HandleSignalledNever(has, set) == FALSE
HandleSignalled(has, set) == has /\ set

\* total = max(1, len(tracks))
TotalNoFloor(ts) == Len(ts)
Total(ts) == Max(1, Len(ts))

\* p = max(0.0, min(1.0, p)) on a fraction <<num, den>>
Clamp(p) == <<Max(0, Min(p[2], p[1])), p[2]>>

\* ((idx - 1) + p) / total
Remap(i, total, p) == <<(i - 1) * p[2] + p[1], total * p[2]>>

\* ev.model_copy(update={"progress": ...}): the events emit_progress builds are
\* instances of the frozen dataclass ProgressEvent, which has no model_copy, so the
\* attribute lookup raises AttributeError
ModelCopy(ev, progress) == [value |-> ev, err |-> "AttributeError"]

\* progress_proxy: the event as the caller's callback receives it; an exception of
\* the try block is swallowed and the event is forwarded as it came
ProgressProxy(ev, i, total) ==
    IF ev.progress # NoProgress
    THEN LET copy == ModelCopy(ev, Remap(i, total, Clamp(ev.progress)))
         IN IF copy.err = "none" THEN copy.value ELSE ev
    ELSE ev

\* what reaches self._progress: through the proxy for a collection, directly for a Track
Deliver(ev) ==
    IF kind = "collection" THEN ProgressProxy(ev, idx, Total(tracks)) ELSE ev

Event(phase, msg, progress) == [phase |-> phase, msg |-> msg, progress |-> progress]

\* one call of the caller's callback: the item in flight, the fraction the provider
\* reported, and the event as delivered
Received(ev) == [item |-> idx, local |-> ev.progress, ev |-> Deliver(ev)]

\* outcomes of one call of the caller's callback
CbOutcomes == IF cbMayRaise THEN {"ok", "raise"} ELSE {"ok"}

\* list(dict.fromkeys(output_paths))
DedupeNone(s) == <<>>
RECURSIVE DedupeKeepLast(_)
DedupeKeepLast(s) ==
    IF s = <<>> THEN <<>>
    ELSE LET rest == DedupeKeepLast(Tail(s))
         IN IF \E k \in 1..Len(rest) : rest[k] = Head(s) THEN rest
            ELSE <<Head(s)>> \o rest
RECURSIVE Dedupe(_)
Dedupe(s) ==
    IF s = <<>> THEN <<>>
    ELSE LET rest == Dedupe(SubSeq(s, 1, Len(s) - 1))
             x == s[Len(s)]
         IN IF \E k \in 1..Len(rest) : rest[k] = x THEN rest ELSE Append(rest, x)

\* proc.wait() returns once the process has exited
WaitReturnsAlways(p) == TRUE
WaitReturnsNever(p) == FALSE
WaitReturns(p) == p = "exited"

\* the tail of run_ytdlp: which of its three ends is taken
JobOutcomeIgnoreCancel(cancelled, code) == IF code # 0 THEN "error" ELSE "ok"
JobOutcomeRcFirst(cancelled, code) ==
    IF code # 0 THEN "error" ELSE IF cancelled THEN "cancelled" ELSE "ok"
JobOutcome(cancelled, code) ==
    IF cancelled THEN "cancelled" ELSE IF code # 0 THEN "error" ELSE "ok"

\* YouTubeProvider.download: the warnings of the DownloadResult
WarningsOfNoCancel(res, ow) ==
    IF res.already /\ ~ow THEN "already" ELSE "none"
WarningsOfNoAlready(res, ow) ==
    IF res.cancelled THEN "cancelled" ELSE "none"
WarningsOf(res, ow) ==
    IF res.cancelled THEN "cancelled"
    ELSE IF res.already /\ ~ow THEN "already"
    ELSE "none"

NoJob == [outcome |-> "none", exc |-> "none", exit_code |-> 0, cancelled |-> FALSE,
          output_paths |-> <<>>, already |-> FALSE]

\* a Track as the download stage reads it: url is <<>> when the Track has none
NoUrl == <<>>
TrackOf(i, url) == [t |-> "track", id |-> i, source |-> "reference", url |-> url]
CollectionOf(entries) == [t |-> "collection", entries |-> entries]
NoItem == [t |-> "none"]

\* _collect: the Tracks of an item, depth-first, entries in their order
RECURSIVE Flatten(_), FlattenAll(_)
FlattenAll(entries) ==
    IF entries = <<>> THEN <<>> ELSE Flatten(Head(entries)) \o FlattenAll(Tail(entries))
IsTrack(item) == item.t = "track"
IsCollection(item) == item.t = "collection"
FlattenNestedLast(item) ==
    IF IsTrack(item) THEN <<item>>
    ELSE IF IsCollection(item)
    THEN SelectSeq(item.entries, IsTrack) \o FlattenAll(SelectSeq(item.entries, IsCollection))
    ELSE <<>>
Flatten(item) ==
    IF IsTrack(item) THEN <<item>>
    ELSE IF IsCollection(item) THEN FlattenAll(item.entries)
    ELSE <<>>

\* YouTubeProvider.download: the source handed to run_ytdlp
DownloadSourceAlwaysSource(item) == item.source
DownloadSource(item) == IF item.url # NoUrl THEN item.url[1] ELSE item.source

\* the outcomes of sending one stop signal
Deliveries == IF env.sigMayFail THEN {"ok", "fail"} ELSE {"ok"}

\* the stop signal _request_stop sends next, by where run_ytdlp stands
NextSignalKillFirst(pc) == "KILL"
NextSignal(pc) ==
    IF pc = "read" THEN "INT" ELSE IF pc = "grace1" THEN "TERM" ELSE "KILL"

\* where _request_stop stands after sending a signal
AfterSignal(sig) ==
    IF sig = "INT" THEN "grace1" ELSE IF sig = "TERM" THEN "grace2" ELSE "wait"

\* a failed delivery is caught inside _request_stop: does the send raise to its caller
SendRaisesOnFailure(delivery) == delivery = "fail"
SendRaises(delivery) == FALSE

\* the undelivered signals after one more send
Lost(sig, delivery) == IF delivery = "fail" THEN Append(lost, sig) ELSE lost

\* the log of received events after the job delivered evs while at line n
Logged(n, evs) ==
    IF env.trace
    THEN evLog \o [i \in 1..Len(evs) |-> [line |-> n, ev |-> Deliver(evs[i])]]
    ELSE evLog

NoEvent == [item |-> 0, local |-> NoProgress, ev |-> Event("none", "none", NoProgress)]

(***************************************************************************)
(* Strings of identifiers, as sequences of characters                      *)
(***************************************************************************)
Whitespace == {" "}

RECURSIVE LStrip(_)
LStrip(s) == IF s # <<>> /\ Head(s) \in Whitespace THEN LStrip(Tail(s)) ELSE s

RECURSIVE RStrip(_)
RStrip(s) ==
    IF s # <<>> /\ s[Len(s)] \in Whitespace THEN RStrip(SubSeq(s, 1, Len(s) - 1)) ELSE s

\* str.strip()
Strip(s) == RStrip(LStrip(s))

LowerChar(c) ==
    CASE c = "A" -> "a" [] c = "B" -> "b" [] c = "C" -> "c" [] c = "M" -> "m"
      [] c = "P" -> "p" [] OTHER -> c

\* str.lower()
Lower(s) == [i \in 1..Len(s) |-> LowerChar(s[i])]

\* the identifier a provider is registered and looked up under
NormalizeNoLower(id) == Strip(id)
Normalize(id) == Lower(Strip(id))

\* code points, for the order sorted() uses
Ord(c) ==
    CASE c = " " -> 32 [] c = "(" -> 40 [] c = ")" -> 41 [] c = "," -> 44
      [] c = "A" -> 65 [] c = "B" -> 66 [] c = "C" -> 67
      [] c = "a" -> 97 [] c = "b" -> 98 [] c = "c" -> 99
      [] OTHER -> 110

RECURSIVE StrLeq(_, _)
StrLeq(s, t) ==
    IF s = <<>> THEN TRUE
    ELSE IF t = <<>> THEN FALSE
    ELSE IF Head(s) = Head(t) THEN StrLeq(Tail(s), Tail(t))
    ELSE Ord(Head(s)) < Ord(Head(t))

RECURSIVE Insert(_, _)
Insert(k, ks) ==
    IF ks = <<>> THEN <<k>>
    ELSE IF StrLeq(k, Head(ks)) THEN <<k>> \o ks
    ELSE <<Head(ks)>> \o Insert(k, Tail(ks))

\* sorted(_PROVIDER_REGISTRY)
RECURSIVE Sorted(_)
Sorted(ks) == IF ks = <<>> THEN <<>> ELSE Insert(Head(ks), Sorted(Tail(ks)))

\* ', '.join(ks)
RECURSIVE Join(_)
Join(ks) ==
    IF ks = <<>> THEN <<>>
    ELSE IF Len(ks) = 1 THEN Head(ks)
    ELSE Head(ks) \o <<",", " ">> \o Join(Tail(ks))

(***************************************************************************)
(* Providers and the registry (providers/base.py)                          *)
(***************************************************************************)
\* values of provider.id as written by a provider's author
RawIds == { <<"a">>, <<"A", " ">>, <<" ", "a">>, <<"b">>, <<"c">>, <<" ">>, <<>> }

Sources == {"s1", "s2"}

\* what a can_handle call does: returns True, returns False, raises
Answers == {"yes", "no", "raise"}

\* a provider accepts (or trips over) references of at most one family
Behaviours == {f \in [Sources -> Answers] : Cardinality({s \in Sources : f[s] # "no"}) <= 1}

Providers == [id : RawIds, ch : Behaviours]

CanHandle(prov, source) == prov.ch[source]

Keys(reg) == [i \in 1..Len(reg) |-> reg[i].key]
KeySet(reg) == {reg[i].key : i \in 1..Len(reg)}

NoError == [type |-> "none", msg |-> "none", text |-> <<>>]
Error(type, msg, text) == [type |-> type, msg |-> msg, text |-> text]

\* register_provider: the registry and the exception after the call
RegisterProviderOverwrite(reg, prov) ==
    LET pid == Normalize(prov.id) IN
    IF pid = <<>>
    THEN [reg |-> reg, err |-> Error("ValueError", "provider.id cannot be empty", <<>>)]
    ELSE IF pid \in KeySet(reg)
    THEN [reg |-> [i \in 1..Len(reg) |->
                     IF reg[i].key = pid THEN [key |-> pid, prov |-> prov] ELSE reg[i]],
          err |-> NoError]
    ELSE [reg |-> Append(reg, [key |-> pid, prov |-> prov]), err |-> NoError]
RegisterProvider(reg, prov) ==
    LET pid == Normalize(prov.id) IN
    IF pid = <<>>
    THEN [reg |-> reg, err |-> Error("ValueError", "provider.id cannot be empty", <<>>)]
    ELSE IF pid \in KeySet(reg)
    THEN [reg |-> reg, err |-> Error("ValueError", "Provider already registered: ", pid)]
    ELSE [reg |-> Append(reg, [key |-> pid, prov |-> prov]), err |-> NoError]

\* how a lookup ends: the provider returned, the exception raised, and the keys of
\* the providers whose can_handle it called, in call order
Lookup(ret, exc, asked) == [ret |-> ret, err |-> exc, consulted |-> asked]

\* get_provider
GetProvider(reg, provider_id) ==
    LET pid == Normalize(provider_id) IN
    IF \E i \in 1..Len(reg) : reg[i].key = pid
    THEN Lookup(<<reg[CHOOSE i \in 1..Len(reg) : reg[i].key = pid].prov>>, NoError, <<>>)
    ELSE Lookup(<<>>, Error("KeyError", "Unknown provider_id", provider_id), <<>>)

\* the message of the ProviderError find_provider_for_source raises
NoProviderText(reg) ==
    IF reg = <<>> THEN <<"(", "n", "o", "n", "e", ")">> ELSE Join(Sorted(Keys(reg)))

\* the loop of find_provider_for_source from entry i on: index of the provider
\* returned, 0 when the loop runs out
RECURSIVE Scan(_, _, _)
Scan(reg, source, i) ==
    IF i > Len(reg) THEN 0
    ELSE IF CanHandle(reg[i].prov, source) = "yes" THEN i
    ELSE Scan(reg, source, i + 1)

NoProvider(reg) ==
    Lookup(<<>>,
           Error("ProviderError",
                 "No provider can handle this input. Registered providers: ",
                 NoProviderText(reg)),
           Keys(reg))

\* find_provider_for_source
FindLastAccepting(reg, source) ==
    LET hits == {i \in 1..Len(reg) : CanHandle(reg[i].prov, source) = "yes"} IN
    IF hits = {} THEN NoProvider(reg)
    ELSE LET i == CHOOSE h \in hits : \A g \in hits : g <= h
         IN Lookup(<<reg[i].prov>>, NoError, Keys(reg))
FindAbortOnRaise(reg, source) ==
    LET i == Scan(reg, source, 1)
        last == IF i = 0 THEN Len(reg) ELSE i
        raising == {j \in 1..last : CanHandle(reg[j].prov, source) = "raise"}
    IN IF raising # {}
       THEN Lookup(<<>>, Error("Exception", "can_handle failed", <<>>),
                   SubSeq(Keys(reg), 1, CHOOSE j \in raising : \A g \in raising : j <= g))
       ELSE IF i = 0 THEN NoProvider(reg)
       ELSE Lookup(<<reg[i].prov>>, NoError, SubSeq(Keys(reg), 1, i))
FindFallbackFirst(reg, source) ==
    LET i == Scan(reg, source, 1) IN
    IF i = 0
    THEN IF reg = <<>> THEN NoProvider(reg) ELSE Lookup(<<reg[1].prov>>, NoError, Keys(reg))
    ELSE Lookup(<<reg[i].prov>>, NoError, SubSeq(Keys(reg), 1, i))
FindProviderForSource(reg, source) ==
    LET i == Scan(reg, source, 1) IN
    IF i = 0 THEN NoProvider(reg)
    ELSE Lookup(<<reg[i].prov>>, NoError, SubSeq(Keys(reg), 1, i))

\* no front-end: Pipeline is driven by another caller
NoUi == [flag |-> {}, workers |-> <<>>, btnStart |-> "none", btnStop |-> "none",
         queue |-> <<>>]

NoOp == [op |-> "none", source |-> "none", id |-> <<>>, raw |-> <<>>,
         ret |-> <<>>, err |-> NoError, consulted |-> <<>>]

(***************************************************************************)
(* Pipeline.run up to the options value (core/pipeline.py)                 *)
(***************************************************************************)
\* PipelineRequest.provider_id is None (<<>>) or a string (<<id>>)
\* the format words, as the characters strip() and lower() work on
Mp3 == <<"m", "p", "3">>
Best == <<"b", "e", "s", "t">>
M4a == <<"m", "4", "a">>
Opus == <<"o", "p", "u", "s">>

\* the -f selectors YouTubeProvider.download writes
SelAny == "251/140/139/bestaudio/best"
SelM4a == "140/139/bestaudio[ext=m4a]/bestaudio/best"
SelOpus == "251/bestaudio[ext=opus]/bestaudio/best"

NoFormatArgs == [audio_format |-> <<>>, audio_quality |-> <<>>, selector |-> <<>>]

\* `x or default` on a string option: None and "" are both <<>>
OrDefault(x, default) == IF x # <<>> THEN x ELSE default

\* YouTubeProvider.download: runner_audio_format, runner_audio_quality and the -f
\* selector added to extra_args
FormatArgsAlwaysConvert(fmt, quality) ==
    [audio_format |-> Lower(Strip(OrDefault(fmt, Mp3))),
     audio_quality |-> Strip(OrDefault(quality, <<"0">>)),
     selector |-> <<SelAny>>]
FormatArgs(fmt, quality) ==
    LET requested_fmt == Lower(Strip(OrDefault(fmt, Mp3)))
        requested_q == Strip(OrDefault(quality, <<"0">>))
    IN CASE requested_fmt = Best ->
              [audio_format |-> Best, audio_quality |-> <<"0">>, selector |-> <<SelAny>>]
         [] requested_fmt = M4a ->
              [audio_format |-> Best, audio_quality |-> <<"0">>, selector |-> <<SelM4a>>]
         [] requested_fmt = Opus ->
              [audio_format |-> Best, audio_quality |-> <<"0">>, selector |-> <<SelOpus>>]
         [] requested_fmt = Mp3 ->
              [audio_format |-> Mp3, audio_quality |-> OrDefault(requested_q, <<"0">>),
               selector |-> <<SelAny>>]
         [] OTHER ->
              [audio_format |-> requested_fmt, audio_quality |-> requested_q,
               selector |-> <<>>]

NoOverride == <<>>
NoRequest == <<>>
Requests ==
    [provider_id : {NoOverride} \cup {<<id>> : id \in RawIds}, source : Sources,
     audio_format : {Mp3}, audio_quality : {<<"0">>}]

\* `if request.provider_id:`
Truthy(provider_id) == provider_id # NoOverride /\ provider_id[1] # <<>>

\* Pipeline._select_provider
SelectProviderFallback(reg, req) ==
    IF Truthy(req.provider_id) /\ GetProvider(reg, req.provider_id[1]).ret # <<>>
    THEN GetProvider(reg, req.provider_id[1])
    ELSE FindProviderForSource(reg, req.source)
SelectProvider(reg, req) ==
    IF Truthy(req.provider_id)
    THEN GetProvider(reg, req.provider_id[1])
    ELSE FindProviderForSource(reg, req.source)

\* the order of the steps of Pipeline.run: where it stands after a step that
\* returned (ok) or raised
NextStageResolveAgain(stage, ok) ==
    IF ~ok THEN "raised"
    ELSE IF stage = "select" THEN "resolve"
    ELSE IF stage = "resolve" /\ resolveCalls < 1 THEN "resolve"
    ELSE IF stage = "resolve" THEN "options"
    ELSE "loop"
NextStageIgnoreError(stage, ok) ==
    IF stage = "select" THEN "resolve"
    ELSE IF stage = "resolve" THEN "options"
    ELSE "loop"
NextStage(stage, ok) ==
    IF ~ok THEN "raised"
    ELSE IF stage = "select" THEN "resolve"
    ELSE IF stage = "resolve" THEN "options"
    ELSE "loop"

\* the fields of the DownloadOptions dataclass
DownloadOptionsFields ==
    {"output_dir", "audio_format", "audio_quality", "overwrite", "cookies_path",
     "ffmpeg_path", "tmp_dir"}

\* the keyword arguments Pipeline.run constructs it with
OptionsKwargs ==
    DownloadOptionsFields \cup
    {"use_archive", "archive_path", "loudnorm", "embed_thumbnail",
     "parse_metadata_artist_title", "strip_emojis", "cancel_event"}

NoOptions == <<>>

\* the generated __init__ of a dataclass: an unknown keyword is a TypeError
Construct(fields, kwargs) ==
    IF kwargs \subseteq fields
    THEN [value |-> <<kwargs>>, err |-> "none"]
    ELSE [value |-> NoOptions, err |-> "TypeError"]

\* the provider every modelled download stage was selected from
DownloadProvider == [id |-> <<"a">>, ch |-> [s \in Sources |-> IF s = "s1" THEN "yes" ELSE "no"]]

(***************************************************************************)
(* Initial states: Pipeline.run stands at `results = []` (pipeline.py:75)   *)
(* with the reference resolved to a Track or to a Collection already       *)
(* flattened, and with an options value exposing what                      *)
(* YouTubeProvider.download reads (overwrite, cancel_event); the handle    *)
(* may already be signalled.  Init gives the caller a callback that keeps  *)
(* its never-raise contract, InitFaulty one that may raise on any event.   *)
(***************************************************************************)
\* Pipeline.run at `results = []`: nothing downloaded, no job, no event yet
StageRequest ==
    [provider_id |-> NoOverride, source |-> "s1", audio_format |-> Mp3,
     audio_quality |-> <<"0">>]

StageStartFor(pos, req) ==
    /\ ppc = pos
    /\ idx = 0
    /\ results = <<>>
    /\ err = "none"
    /\ observed = FALSE
    /\ jpc = "idle"
    /\ proc = [i \in 1..MaxTracks |-> "none"]
    /\ rc = 0
    /\ pipe = <<>>
    /\ written = 0
    /\ rawLines = 0
    /\ jcancelled = FALSE
    /\ already = FALSE
    /\ paths = <<>>
    /\ signals = <<>>
    /\ cancelAtStart = FALSE
    /\ jres = NoJob
    /\ lastEv = NoEvent
    /\ cmdSource = "none"
    /\ cmdFormat = NoFormatArgs
    /\ lost = <<>>
    /\ lineLog = <<>>
    /\ evLog = <<>>
    /\ registry = <<[key |-> Normalize(DownloadProvider.id), prov |-> DownloadProvider]>>
    /\ regOp = NoOp
    /\ request = <<req>>
    /\ provider = <<DownloadProvider>>
    /\ consulted = Keys(registry)
    /\ resolveCalls = 1
    /\ options = <<OptionsKwargs>>

StageStartAt(pos) == StageStartFor(pos, StageRequest)
StageStart == StageStartAt("loop")

InitWith(faulty) ==
    /\ kind \in {"track", "collection"}
    /\ \E n \in 0..MaxTracks :
          /\ (kind = "track" => n = 1)
          /\ tracks = [i \in 1..n |-> TrackOf(i, <<"url">>)]
    /\ resolved = IF kind = "track" THEN tracks[1] ELSE CollectionOf(tracks)
    /\ overwrite \in BOOLEAN
    /\ hasCancel \in BOOLEAN
    /\ cancelSet \in BOOLEAN
    /\ (~hasCancel => ~cancelSet)
    /\ cbMayRaise \in faulty
    /\ ui = NoUi
    /\ env = [lines |-> "Lines", budget |-> MaxLines, sigMayFail |-> FALSE, trace |-> FALSE]
    /\ StageStart

Init == InitWith({FALSE})
InitFaulty == InitWith({TRUE})

(***************************************************************************)
(* The caller's thread and the child process                               *)
(***************************************************************************)
Live == ppc \in {"loop", "item"}

\* threading.Event.set() by the caller while the run is live (idempotent)
SignalCancel ==
    /\ Live
    /\ hasCancel
    /\ ~cancelSet
    /\ cancelSet' = TRUE
    /\ UNCHANGED <<inputVars, pipelineVars, jobVars, proc, lastEv>>

\* the child writes one line to its stdout/stderr pipe
ChildWrite ==
    /\ ppc = "item"
    /\ jpc = "read"
    /\ proc[idx] = "running"
    /\ Len(pipe) < PipeCap
    /\ written < env.budget
    /\ \E l \in LinesOf(env.lines) : pipe' = Append(pipe, l)
    /\ written' = written + 1
    /\ UNCHANGED <<inputVars, cancelSet, pipelineVars, jpc, rc, rawLines, jcancelled,
                   already, paths, signals, cancelAtStart, jres, proc, lastEv,
                   jobLogVars>>

\* the child exits, by itself or in answer to a stop signal
ChildExit ==
    /\ idx >= 1
    /\ proc[idx] = "running"
    /\ \E code \in ExitCodes : rc' = code
    /\ proc' = [proc EXCEPT ![idx] = "exited"]
    /\ UNCHANGED <<inputVars, cancelSet, pipelineVars, jpc, pipe, written, rawLines,
                   jcancelled, already, paths, signals, cancelAtStart, jres, lastEv,
                   jobLogVars>>

(***************************************************************************)
(* Pipeline.run from `results = []`, and _download_collection's loop       *)
(***************************************************************************)
\* One pass over the head of the loop (for a Track: the guard of run):
\* the loop is exhausted, or the check sees the signal, or the next download is entered.
LoopStep ==
    /\ ppc = "loop"
    /\ IF kind = "collection" /\ idx = Len(tracks)
       THEN /\ ppc' = "returned"
            /\ UNCHANGED <<idx, observed, jobVars>>
       ELSE IF IsCancelled(hasCancel, cancelSet)
       THEN /\ ppc' = "returned"
            /\ observed' = TRUE
            /\ UNCHANGED <<idx, jobVars>>
       ELSE /\ ppc' = "item"
            /\ idx' = idx + 1
            /\ jpc' = "start"
            /\ rc' = 0
            /\ pipe' = <<>>
            /\ written' = 0
            /\ rawLines' = 0
            /\ jcancelled' = FALSE
            /\ already' = FALSE
            /\ paths' = <<>>
            /\ signals' = <<>>
            /\ jres' = NoJob
            /\ lost' = <<>>
            /\ lineLog' = <<>>
            /\ evLog' = <<>>
            /\ UNCHANGED <<observed, cancelAtStart, cmdSource, cmdFormat>>
    /\ UNCHANGED <<inputVars, cancelSet, results, err, proc, lastEv>>

\* an exception leaves run_ytdlp and, uncaught by the provider and the pipeline,
\* Pipeline.run
Raise(exc) ==
    /\ ppc' = "raised"
    /\ err' = exc
    /\ jpc' = "idle"
    /\ jres' = [NoJob EXCEPT !.outcome = "raised", !.exc = exc]
    /\ UNCHANGED <<idx, results, observed>>

(***************************************************************************)
(* run_ytdlp                                                               *)
(***************************************************************************)
\* entry: the "Iniciando" event, the command, _popen
JobStart ==
    /\ ppc = "item"
    /\ jpc = "start"
    /\ cancelAtStart' = (hasCancel /\ cancelSet)
    /\ cmdSource' = DownloadSource(tracks[idx])
    /\ cmdFormat' = FormatArgs(request[1].audio_format, request[1].audio_quality)
    /\ \E o \in CbOutcomes, spawn \in {"ok", "fail"} :
          IF o = "raise"
          THEN /\ Raise("CallbackError")
               /\ UNCHANGED <<proc, lastEv, evLog>>
          ELSE /\ lastEv' = Received(Event("download", "start", <<0, PctDen>>))
               /\ evLog' = Logged(0, <<Event("download", "start", <<0, PctDen>>)>>)
               /\ IF spawn = "fail"
                  THEN /\ Raise("OSError")
                       /\ UNCHANGED proc
                  ELSE /\ proc' = [proc EXCEPT ![idx] = "running"]
                       /\ jpc' = "read"
                       /\ UNCHANGED <<pipelineVars, jres>>
    /\ UNCHANGED <<inputVars, cancelSet, rc, pipe, written, rawLines, jcancelled,
                   already, paths, signals, lost, lineLog>>

\* the events one interpreted line makes run_ytdlp emit, in order, given how the
\* caller's callback takes the percent event (oP) and the postprocess event (oS)
LineEventsPostFirst(line, oP, oS) ==
    (IF PostOf(line) /\ oS = "ok"
     THEN <<Event("postprocess", "line", NoProgress)>> ELSE <<>>)
    \o (IF Pct(line) # <<>> /\ oP = "ok"
        THEN <<Event("download", "percent", <<Pct(line)[1], PctDen>>)>> ELSE <<>>)
LineEvents(line, oP, oS) ==
    (IF Pct(line) # <<>> /\ oP = "ok"
     THEN <<Event("download", "percent", <<Pct(line)[1], PctDen>>)>> ELSE <<>>)
    \o (IF PostOf(line) /\ oS = "ok"
        THEN <<Event("postprocess", "line", NoProgress)>> ELSE <<>>)

\* one iteration of `for line in proc.stdout`
ReadLine ==
    /\ ppc = "item"
    /\ jpc = "read"
    /\ pipe # <<>>
    /\ pipe' = Tail(pipe)
    /\ rawLines' = rawLines + 1
    /\ lineLog' = IF env.trace THEN Append(lineLog, Head(pipe)) ELSE lineLog
    /\ LET line == Head(pipe)
           sig == HandleSignalled(hasCancel, cancelSet)
       IN \E oC \in CbOutcomes, oP \in CbOutcomes, oS \in CbOutcomes, d \in Deliveries :
          IF sig /\ oC = "ok"
          THEN \* cancelled = True; "Cancelando"; _request_stop(proc); break
               /\ jcancelled' = TRUE
               /\ lastEv' = Received(Event("download", "cancelling", NoProgress))
               /\ evLog' = Logged(rawLines + 1,
                                  <<Event("download", "cancelling", NoProgress)>>)
               /\ IF proc[idx] = "running"
                  THEN /\ signals' = Append(signals, NextSignal(jpc))
                       /\ lost' = Lost(NextSignal(jpc), d)
                       /\ IF SendRaises(d)
                          THEN jpc' = "read"
                          ELSE jpc' = AfterSignal(NextSignal(jpc))
                  ELSE /\ jpc' = "wait"
                       /\ UNCHANGED <<signals, lost>>
               /\ UNCHANGED <<already, paths, pipelineVars, jres>>
          ELSE \* the line is interpreted (also when the notice's exception was swallowed)
               /\ jcancelled' = (jcancelled \/ sig)
               /\ paths' = paths \o PathsOf(line)
               /\ already' = (already \/ AlreadyOf(line))
               /\ UNCHANGED <<signals, lost>>
               /\ lastEv' =
                     IF LineEvents(line, oP, oS) # <<>>
                     THEN Received(LineEvents(line, oP, oS)[Len(LineEvents(line, oP, oS))])
                     ELSE lastEv
               /\ evLog' = Logged(rawLines + 1, LineEvents(line, oP, oS))
               /\ IF PostOf(line) /\ oS = "raise"
                  THEN Raise("CallbackError")
                  ELSE /\ jpc' = "read"
                       /\ UNCHANGED <<pipelineVars, jres>>
    /\ UNCHANGED <<inputVars, cancelSet, rc, written, cancelAtStart, proc, cmdSource,
                   cmdFormat>>

\* _request_stop: a grace window ended with the process still running
StopEscalate ==
    /\ ppc = "item"
    /\ jpc \in {"grace1", "grace2"}
    /\ proc[idx] = "running"
    /\ signals' = Append(signals, NextSignal(jpc))
    /\ \E d \in Deliveries :
          /\ lost' = Lost(NextSignal(jpc), d)
          /\ IF SendRaises(d)
             THEN jpc' = "read"
             ELSE jpc' = AfterSignal(NextSignal(jpc))
    /\ UNCHANGED <<inputVars, cancelSet, pipelineVars, rc, pipe, written, rawLines,
                   jcancelled, already, paths, cancelAtStart, jres, proc, lastEv,
                   cmdSource, cmdFormat, lineLog, evLog>>

\* _request_stop: proc.poll() sees the exit during a grace window
StopReturn ==
    /\ ppc = "item"
    /\ jpc \in {"grace1", "grace2"}
    /\ proc[idx] = "exited"
    /\ jpc' = "wait"
    /\ UNCHANGED <<inputVars, cancelSet, pipelineVars, rc, pipe, written, rawLines,
                   jcancelled, already, paths, signals, cancelAtStart, jres, proc, lastEv,
                   jobLogVars>>

\* results.append(self._download_track(...)); for a Track: return [result]
AppendResultFront(rs, r) == <<r>> \o rs
AppendResult(rs, r) == Append(rs, r)

\* end of output, proc.wait(), the three ends of run_ytdlp; on a returned result
\* YouTubeProvider.download lifts it and _download_track/_download_collection append it
JobFinish ==
    /\ ppc = "item"
    /\ jpc \in {"read", "wait"}
    /\ (jpc = "read" => pipe = <<>>)
    /\ WaitReturns(proc[idx])
    /\ LET out == JobOutcome(jcancelled, rc)
           res == [outcome |-> "returned", exc |-> "none", exit_code |-> rc,
                   cancelled |-> (out = "cancelled"), output_paths |-> Dedupe(paths),
                   already |-> already]
       IN \E o \in CbOutcomes :
          IF out = "error"
          THEN /\ Raise("ProviderError")
               /\ UNCHANGED <<lastEv, evLog>>
          ELSE IF o = "raise"
          THEN /\ Raise("CallbackError")
               /\ UNCHANGED <<lastEv, evLog>>
          ELSE /\ evLog' = Logged(rawLines + 1,
                                  <<IF out = "cancelled"
                                      THEN Event("download", "cancelled", NoProgress)
                                      ELSE Event("download", "completed",
                                                 <<PctDen, PctDen>>)>>)
               /\ lastEv' = Received(IF out = "cancelled"
                                         THEN Event("download", "cancelled", NoProgress)
                                         ELSE Event("download", "completed",
                                                    <<PctDen, PctDen>>))
               /\ jres' = res
               /\ jpc' = "idle"
               /\ results' = AppendResult(results,
                                          [item |-> tracks[idx],
                                           files |-> res.output_paths,
                                           warning |-> WarningsOf(res, overwrite)])
               /\ ppc' = IF kind = "track" THEN "returned" ELSE "loop"
               /\ UNCHANGED <<idx, err, observed>>
    /\ UNCHANGED <<inputVars, cancelSet, rc, pipe, written, rawLines, jcancelled,
                   already, paths, signals, cancelAtStart, proc, cmdSource, cmdFormat,
                   lost,
                   lineLog>>

Next ==
    \/ SignalCancel
    \/ ChildWrite
    \/ ChildExit
    \/ LoopStep
    \/ JobStart
    \/ ReadLine
    \/ StopEscalate
    \/ StopReturn
    \/ JobFinish

Spec == Init /\ [][Next]_vars
SpecFaulty == InitFaulty /\ [][Next]_vars

(***************************************************************************)
(* One job in detail: a run whose reference resolved to a single Track,    *)
(* with or without a url, whose child draws its lines from JobLines, whose *)
(* stop signals may fail to be delivered, and which keeps the lines read   *)
(* and the events received.                                                *)
(***************************************************************************)
InitJob ==
    /\ kind = "track"
    /\ \E url \in {NoUrl, <<"url">>} : tracks = <<TrackOf(1, url)>>
    /\ resolved = tracks[1]
    /\ overwrite \in BOOLEAN
    /\ hasCancel \in BOOLEAN
    /\ cancelSet \in BOOLEAN
    /\ (~hasCancel => ~cancelSet)
    /\ cbMayRaise = FALSE
    /\ ui = NoUi
    /\ env = [lines |-> "JobLines", budget |-> MaxJobLines, sigMayFail |-> TRUE,
              trace |-> TRUE]
    /\ StageStart

SpecJob == InitJob /\ [][Next]_vars

(***************************************************************************)
(* The interpretation of one line: a job whose child writes a single line, *)
(* any sequence of at most MaxTokens of the words the patterns look for.   *)
(***************************************************************************)
InitLine ==
    /\ kind = "track"
    /\ tracks = <<TrackOf(1, <<"url">>)>>
    /\ resolved = tracks[1]
    /\ overwrite = FALSE
    /\ hasCancel \in BOOLEAN
    /\ cancelSet \in BOOLEAN
    /\ (~hasCancel => ~cancelSet)
    /\ cbMayRaise = FALSE
    /\ ui = NoUi
    /\ env = [lines |-> "LineSpace", budget |-> 1, sigMayFail |-> FALSE, trace |-> TRUE]
    /\ StageStart

SpecLine == InitLine /\ [][Next]_vars

(***************************************************************************)
(* The command of one job: a single Track downloaded under any of the      *)
(* requested formats and qualities below.                                  *)
(***************************************************************************)
FormatInputs ==
    { <<>>, Mp3, <<" ", "M", "P", "3">>, Best, <<"B", "e", "s", "t", " ">>, M4a, Opus,
      <<"f", "l", "a", "c">> }

QualityInputs == { <<>>, <<"0">>, <<"5">>, <<" ", "5">>, <<" ">> }

InitCommand ==
    /\ kind = "track"
    /\ tracks = <<TrackOf(1, <<"url">>)>>
    /\ resolved = tracks[1]
    /\ overwrite = FALSE
    /\ hasCancel \in BOOLEAN
    /\ cancelSet = FALSE
    /\ cbMayRaise = FALSE
    /\ ui = NoUi
    /\ env = [lines |-> "FlattenLines", budget |-> MaxLines, sigMayFail |-> FALSE,
              trace |-> FALSE]
    /\ \E fmt \in FormatInputs, quality \in QualityInputs :
          StageStartFor("loop", [StageRequest EXCEPT !.audio_format = fmt,
                                                    !.audio_quality = quality])

SpecCommand == InitCommand /\ [][Next]_vars

(***************************************************************************)
(* The registry API on its own: providers register at import time, callers *)
(* look providers up.  The registry starts empty.                          *)
(***************************************************************************)
downloadVarsButUi == <<kind, tracks, resolved, env, overwrite, hasCancel, cbMayRaise,
                       cancelSet, pipelineVars, jobVars, proc, lastEv>>
downloadVars == <<downloadVarsButUi, ui>>

\* the process after `import audiodl.providers.base` and Pipeline(...), with the
\* front-end that drives it
InitProcess(handles, front) ==
    /\ kind = "none"
    /\ tracks = <<>>
    /\ overwrite = FALSE
    /\ hasCancel \in handles
    /\ cancelSet = FALSE
    /\ cbMayRaise = FALSE
    /\ ppc = "idle"
    /\ idx = 0
    /\ results = <<>>
    /\ err = "none"
    /\ observed = FALSE
    /\ jpc = "idle"
    /\ proc = [i \in 1..MaxTracks |-> "none"]
    /\ rc = 0
    /\ pipe = <<>>
    /\ written = 0
    /\ rawLines = 0
    /\ jcancelled = FALSE
    /\ already = FALSE
    /\ paths = <<>>
    /\ signals = <<>>
    /\ cancelAtStart = FALSE
    /\ jres = NoJob
    /\ lastEv = NoEvent
    /\ ui = front
    /\ env = [lines |-> "Lines", budget |-> MaxLines, sigMayFail |-> FALSE, trace |-> FALSE]
    /\ resolved = NoItem
    /\ cmdSource = "none"
    /\ cmdFormat = NoFormatArgs
    /\ lost = <<>>
    /\ lineLog = <<>>
    /\ evLog = <<>>
    /\ regOp = NoOp
    /\ request = NoRequest
    /\ provider = <<>>
    /\ consulted = <<>>
    /\ resolveCalls = 0
    /\ options = NoOptions

InitImport(handles) == InitProcess(handles, NoUi)

InitRegistry ==
    /\ InitImport({FALSE})
    /\ registry = <<>>

Register(prov) ==
    /\ ppc = "idle"
    /\ LET r == RegisterProvider(registry, prov) IN
          /\ registry' = r.reg
          /\ regOp' = [NoOp EXCEPT !.op = "register", !.id = Normalize(prov.id),
                                   !.raw = prov.id,
                                   !.err = r.err]
    /\ UNCHANGED <<downloadVars, request, provider, consulted, resolveCalls, options>>

Find(source) ==
    /\ ppc = "idle"
    /\ LET r == FindProviderForSource(registry, source) IN
          regOp' = [NoOp EXCEPT !.op = "find", !.source = source, !.ret = r.ret,
                                !.err = r.err, !.consulted = r.consulted]
    /\ UNCHANGED <<downloadVars, registry, request, provider, consulted, resolveCalls,
                   options>>

Get(provider_id) ==
    /\ ppc = "idle"
    /\ LET r == GetProvider(registry, provider_id) IN
          regOp' = [NoOp EXCEPT !.op = "get", !.raw = provider_id, !.ret = r.ret,
                                !.err = r.err]
    /\ UNCHANGED <<downloadVars, registry, request, provider, consulted, resolveCalls,
                   options>>

NextRegistry ==
    \/ \E prov \in Providers : Register(prov)
    \/ \E source \in Sources : Find(source)
    \/ \E provider_id \in RawIds : Get(provider_id)

SpecRegistry == InitRegistry /\ [][NextRegistry]_vars

(***************************************************************************)
(* Pipeline.run from its first line to the options value: providers        *)
(* register at import, then one run selects a provider, resolves the       *)
(* reference and constructs DownloadOptions.                               *)
(***************************************************************************)
\* the providers whose modules the application imports
RunProviders == {prov \in Providers : prov.id \in {<<"A", " ">>, <<"b">>}}

InitRun ==
    /\ InitImport(BOOLEAN)
    /\ registry = <<>>

\* Pipeline.run(request) is entered; _ensure_output_dir swallows its failures
RunStart(req) ==
    /\ ppc = "idle"
    /\ request' = <<req>>
    /\ ppc' = "select"
    /\ UNCHANGED <<kind, tracks, resolved, env, ui, overwrite, hasCancel, cbMayRaise,
                   cancelSet, idx,
                   results, err, observed, jobVars, proc, lastEv, registry, regOp,
                   provider, consulted, resolveCalls, options>>

\* provider = self._select_provider(request)
Select ==
    /\ ppc = "select"
    /\ LET r == SelectProvider(registry, request[1]) IN
          /\ provider' = r.ret
          /\ consulted' = r.consulted
          /\ err' = r.err.type
          /\ ppc' = NextStage("select", r.err = NoError)
    /\ UNCHANGED <<kind, tracks, resolved, env, ui, overwrite, hasCancel, cbMayRaise,
                   cancelSet, idx,
                   results, observed, jobVars, proc, lastEv, registry, regOp, request,
                   resolveCalls, options>>

\* how provider.resolve ends: raises ProviderError, or returns a Track or a
\* Collection of n entries
ResolveOutcomes ==
    {[kind |-> "raise", n |-> 0], [kind |-> "track", n |-> 1]}
        \cup {[kind |-> "collection", n |-> n] : n \in 0..MaxTracks}

\* resolved = provider.resolve(request.source, progress=self._progress)
Resolve(out) ==
    /\ ppc = "resolve"
    /\ resolveCalls' = resolveCalls + 1
    /\ IF out.kind = "raise"
          THEN /\ err' = "ProviderError"
               /\ lastEv' = [item |-> 0, local |-> NoProgress,
                             ev |-> Event("resolve", "start", NoProgress)]
               /\ UNCHANGED <<kind, tracks, resolved>>
          ELSE /\ kind' = out.kind
               /\ tracks' = [i \in 1..out.n |-> TrackOf(i, <<"url">>)]
               /\ resolved' = IF out.kind = "track"
                              THEN TrackOf(1, <<"url">>)
                              ELSE CollectionOf([i \in 1..out.n |-> TrackOf(i, <<"url">>)])
               /\ lastEv' = [item |-> 0, local |-> <<PctDen, PctDen>>,
                             ev |-> Event("resolve", "detected", <<PctDen, PctDen>>)]
               /\ UNCHANGED err
    /\ ppc' = NextStage("resolve", out.kind # "raise")
    /\ UNCHANGED <<env, ui, overwrite, hasCancel, cbMayRaise, cancelSet, idx, results, observed,
                   jobVars, proc, registry, regOp, request, provider, consulted,
                   options>>

\* options = DownloadOptions(...)
BuildOptions ==
    /\ ppc = "options"
    /\ LET c == Construct(DownloadOptionsFields, OptionsKwargs) IN
          /\ options' = c.value
          /\ err' = c.err
          /\ ppc' = NextStage("options", c.err = "none")
    /\ UNCHANGED <<kind, tracks, resolved, env, ui, overwrite, hasCancel, cbMayRaise,
                   cancelSet, idx,
                   results, observed, jobVars, proc, lastEv, registry, regOp, request,
                   provider, consulted, resolveCalls>>

NextRun ==
    \/ \E prov \in RunProviders : Register(prov)
    \/ \E req \in Requests : RunStart(req)
    \/ Select
    \/ \E out \in ResolveOutcomes : Resolve(out)
    \/ BuildOptions

SpecRun == InitRun /\ [][NextRun]_vars

(***************************************************************************)
(* Properties                                                              *)
(***************************************************************************)
Signalled == hasCancel /\ cancelSet

\* a/b <= c/d for positive denominators
Leq(x, y) == x[1] * y[2] <= y[1] * x[2]

\* the window [(i-1)/n, i/n] of item i of n
InWindow(g, i, n) == Leq(<<i - 1, n>>, g) /\ Leq(g, <<i, n>>)

\* C1: in Pipeline.run a download starts only in a step whose check found the handle
\* not signalled; once a check has seen the signal no further item starts, the run
\* returns, and what it returns is the list accumulated so far, one result per item
\* started before (for a single Track: the empty list).
C1_StartOnlyUnsignalled ==
    [][ /\ (idx' # idx => ~Signalled)
        /\ (observed => idx' = idx /\ results' = results /\ ppc' = "returned")
        /\ (observed' /\ ~observed =>
              /\ Signalled
              /\ ppc' = "returned"
              /\ results' = results
              /\ Len(results') = idx'
              /\ (kind = "track" => results' = <<>>)) ]_vars

C1_Witness ==
    /\ observed
    /\ ppc = "returned"
    /\ idx = 1
    /\ Len(tracks) = 3
    /\ Len(results) = 1

\* C2 (as claimed): when the job of item k of a collection is cancelled mid-flight,
\* the run returns exactly the k-1 results of the items completed before it.
C2_ReturnsKMinusOne ==
    (ppc = "returned" /\ kind = "collection" /\ jres.cancelled) => Len(results) = idx - 1

\* C2 (amended): when the job of item k of a collection is cancelled mid-flight, the
\* result list holds exactly k results, the k-1 results of the items completed before
\* it followed by item k's own result carrying the cancellation warning; no item
\* after k is started (no process of a later item exists) and the handle stays
\* signalled for the caller to see.
C2_ReturnsKFlagged ==
    kind = "collection" =>
        /\ (jres.cancelled =>
              /\ Len(results) = idx
              /\ results[idx].warning = "cancelled"
              /\ results[idx].item = tracks[idx]
              /\ \A j \in 1..(idx - 1) :
                    results[j].item = tracks[j] /\ results[j].warning # "cancelled"
              /\ ppc \in {"loop", "returned"}
              /\ Signalled)
        /\ \A k \in 1..Len(results) :
              results[k].warning = "cancelled" =>
                  /\ k = Len(results)
                  /\ k = idx
                  /\ \A i \in (k + 1)..MaxTracks : proc[i] = "none"

C2_Witness ==
    /\ ppc = "returned"
    /\ kind = "collection"
    /\ Len(tracks) = 3
    /\ idx = 2
    /\ Len(results) = 2
    /\ results[1].warning = "none"
    /\ results[2].warning = "cancelled"

\* C3 (as claimed): a per-item failure inside a collection (non-zero exit without
\* cancellation, or a process that cannot be started) never makes Pipeline.run raise.
C3_FailureNeverAborts ==
    kind = "collection" => ~(ppc = "raised" /\ err \in {"ProviderError", "OSError"})

\* C4 (as claimed): a started process that exits non-zero without cancellation makes
\* run_ytdlp return a result carrying that status; it raises nothing.
C4_NonZeroExitReturned ==
    (jres.outcome # "none" /\ proc[idx] = "exited" /\ rc # 0 /\ ~jcancelled) =>
        (jres.outcome = "returned" /\ jres.exit_code = rc)

\* C5 (as claimed): if the handle is signalled when run_ytdlp is entered and the
\* process is spawned, the run ends with a result whose cancelled flag is set,
\* whatever the child does.
C5_PreSignalledCancelled ==
    (jres.outcome # "none" /\ cancelAtStart /\ proc[idx] # "none") =>
        (jres.outcome = "returned" /\ jres.cancelled)

\* C6 (as claimed): whenever control has left run_ytdlp, by return or by exception,
\* the process it spawned is not running.
C6_NoProcessLeft ==
    jres.outcome # "none" => proc[idx] # "running"

\* C7: a line read while the handle reports signalled is the last line read: the
\* executor sets cancelled, starts staged termination (the interrupt is sent unless
\* the process has already exited), applies nothing of that line, reads no more, and
\* its run ends with a returned result whose cancelled flag is set.
C7_StopOnSignalledLine ==
    [][ /\ (rawLines' = rawLines + 1 /\ Signalled =>
              /\ jcancelled'
              /\ paths' = paths
              /\ already' = already
              /\ IF proc[idx] = "running"
                 THEN jpc' = "grace1" /\ signals' = <<"INT">>
                 ELSE jpc' = "wait" /\ signals' = <<>>)
        /\ (jcancelled => rawLines' = rawLines)
        /\ (jcancelled /\ jres'.outcome # "none" =>
              jres'.outcome = "returned" /\ jres'.cancelled) ]_vars

C7_Witness ==
    /\ jres.outcome = "returned"
    /\ jres.cancelled
    /\ rawLines = 2
    /\ signals = <<"INT", "TERM", "KILL">>

\* C8: a job that observed the signal ends with a returned result, cancelled set and
\* carrying the exit status of the stopped process whatever it is; nothing is raised,
\* and the provider lifts the result into a DownloadResult with the cancellation
\* warning, which the pipeline appends.
C8_CancelNotAnError ==
    (jcancelled /\ jres.outcome # "none") =>
        /\ jres.outcome = "returned"
        /\ jres.cancelled
        /\ jres.exit_code = rc
        /\ err = "none"
        /\ ppc # "raised"
        /\ Len(results) = idx
        /\ results[idx].warning = "cancelled"

C8_Witness ==
    /\ jres.outcome = "returned"
    /\ jres.cancelled
    /\ jres.exit_code # 0
    /\ results[idx].warning = "cancelled"

\* C9: at most one yt-dlp download process of a run is running at any time: while
\* item idx is in flight every earlier item's process has exited (or never existed),
\* no later item has a process, and no process is spawned after an item whose job was
\* cancelled or failed.
C9_OneProcessAtATime ==
    /\ Cardinality({i \in 1..MaxTracks : proc[i] = "running"}) <= 1
    /\ \A i \in 1..MaxTracks :
          /\ (i < idx => proc[i] # "running")
          /\ (i > idx => proc[i] = "none")
          /\ (i < idx /\ proc[idx] # "none" =>
                /\ i <= Len(results)
                /\ results[i].warning # "cancelled"
                /\ proc[i] = "exited")

C9_Witness ==
    /\ idx = 2
    /\ proc[1] = "exited"
    /\ proc[2] = "running"

\* C10: while item i of the n flattened Tracks is in flight, for local fractions p in
\* [0,1] the fraction the proxy emits lies in [(i-1)/n, i/n] and does not decrease
\* when p grows; every fraction the caller has received for an item of a collection
\* lies in that item's window.
UnitFractions == {<<0, PctDen>>, <<1, PctDen>>, <<50, PctDen>>, <<PctDen, PctDen>>}

Emitted(p) == ProgressProxy(Event("download", "percent", p), idx, Total(tracks)).progress

C10_RemapInWindowMonotone ==
    (kind = "collection" /\ idx >= 1) =>
        /\ \A p \in UnitFractions :
              /\ InWindow(Emitted(p), idx, Len(tracks))
              /\ \A q \in UnitFractions : Leq(p, q) => Leq(Emitted(p), Emitted(q))
        /\ (lastEv.ev.progress # NoProgress =>
              InWindow(lastEv.ev.progress, lastEv.item, Len(tracks)))

\* a/b = c/d for positive denominators
Eq(x, y) == x[1] * y[2] = y[1] * x[2]

\* C11: every event the caller receives is delivered while its item is in flight and
\* is stamped with that item's index; for a collection of n Tracks, an event of item
\* i whose local fraction p lies in [0,1] arrives with fraction ((i-1)+p)/n, on every
\* tick (start, each percent line, completion) and not only at item boundaries.
C11_RemapWithIndexInFlight ==
    [][ lastEv' # lastEv =>
          /\ ppc = "item"
          /\ idx' = idx
          /\ lastEv'.item = idx
          /\ (lastEv'.local = NoProgress => lastEv'.ev.progress = NoProgress)
          /\ (kind = "collection" /\ lastEv'.local # NoProgress
                /\ Leq(<<0, 1>>, lastEv'.local) /\ Leq(lastEv'.local, <<1, 1>>) =>
                Eq(lastEv'.ev.progress,
                   <<(idx - 1) * lastEv'.local[2] + lastEv'.local[1],
                     Len(tracks) * lastEv'.local[2]>>)) ]_vars

Accepts(i, source) == CanHandle(registry[i].prov, source) = "yes"

\* C12: registering a provider whose normalized identifier is already registered
\* fails (ValueError "Provider already registered: <id>", the code's duplicate
\* error) and leaves the registry as it was: same identifiers, same provider bound
\* to each, same order; after any sequence of earlier registrations.
C12_DuplicateLeavesRegistry ==
    [][ (regOp'.op = "register" /\ regOp'.id \in KeySet(registry)) =>
           /\ registry' = registry
           /\ regOp'.err = Error("ValueError", "Provider already registered: ",
                                 regOp'.id) ]_vars

C12_Witness ==
    /\ Keys(registry) = << <<"c">>, <<"a">>, <<"b">> >>
    /\ registry[2].prov.id = <<"A", " ">>
    /\ regOp.op = "register"
    /\ regOp.err = Error("ValueError", "Provider already registered: ", <<"a">>)

\* C13: find_provider_for_source returns the earliest-registered provider among
\* those whose can_handle returns true for the reference.
C13_EarliestAccepting ==
    regOp.op = "find" =>
        \A i \in 1..Len(registry) :
            (Accepts(i, regOp.source) /\ \A j \in 1..(i - 1) : ~Accepts(j, regOp.source)) =>
                /\ regOp.ret = <<registry[i].prov>>
                /\ regOp.err = NoError

C13_Witness ==
    /\ regOp.op = "find"
    /\ Len(registry) = 3
    /\ ~Accepts(1, regOp.source)
    /\ Accepts(2, regOp.source)
    /\ Accepts(3, regOp.source)
    /\ regOp.ret = <<registry[2].prov>>

\* C14: a provider whose can_handle raises is a non-match: the lookup goes on to
\* the providers registered after it and still returns a later one that accepts.
C14_RaisingIsNonMatch ==
    regOp.op = "find" =>
        \A i \in 1..Len(registry) :
            (/\ Accepts(i, regOp.source)
             /\ \A j \in 1..(i - 1) : ~Accepts(j, regOp.source)
             /\ \E j \in 1..(i - 1) : CanHandle(registry[j].prov, regOp.source) = "raise") =>
                /\ regOp.err.type = "none"
                /\ regOp.consulted = SubSeq(Keys(registry), 1, i)
                /\ regOp.ret # <<>>
                /\ regOp.ret[1] = registry[i].prov

C14_Witness ==
    /\ regOp.op = "find"
    /\ Len(registry) = 3
    /\ CanHandle(registry[1].prov, regOp.source) = "raise"
    /\ CanHandle(registry[2].prov, regOp.source) = "raise"
    /\ Accepts(3, regOp.source)
    /\ regOp.ret = <<registry[3].prov>>

\* key occurs in text
Mentions(text, key) ==
    \E i \in 1..(Len(text) - Len(key) + 1) : SubSeq(text, i, i + Len(key) - 1) = key

\* C15: when no registered provider accepts the reference (each returns false or
\* raises), the lookup returns no provider and raises ProviderError (the code's
\* no-provider error) whose message names every registered identifier.
C15_NoProviderListsAll ==
    (regOp.op = "find" /\ \A i \in 1..Len(registry) : ~Accepts(i, regOp.source)) =>
        /\ regOp.ret = <<>>
        /\ regOp.err.type = "ProviderError"
        /\ regOp.err.msg = "No provider can handle this input. Registered providers: "
        /\ \A i \in 1..Len(registry) : Mentions(regOp.err.text, registry[i].key)
        /\ regOp.consulted = Keys(registry)

C15_Witness ==
    /\ regOp.op = "find"
    /\ Keys(registry) = << <<"c">>, <<"a">>, <<"b">> >>
    /\ CanHandle(registry[1].prov, regOp.source) = "raise"
    /\ CanHandle(registry[2].prov, regOp.source) = "no"
    /\ regOp.ret = <<>>
    /\ regOp.err.text = <<"a", ",", " ", "b", ",", " ", "c">>

\* the run has finished provider selection
Selected == request # NoRequest /\ ppc \notin {"idle", "select"}

\* the run's selection returned a provider
SelectionOk == Selected /\ provider # <<>>

\* C16: a request that carries an override (a non-empty provider_id) is served by
\* identifier alone: the provider registered under the normalized identifier, no
\* can_handle consulted, and an unknown identifier ends the run with KeyError
\* instead of falling back to reference matching; a request without override is
\* served by the registry lookup by reference.
C16_OverrideElseLookup ==
    Selected =>
        LET req == request[1] IN
        IF Truthy(req.provider_id)
        THEN /\ consulted = <<>>
             /\ \A i \in 1..Len(registry) :
                   registry[i].key = Normalize(req.provider_id[1]) =>
                       provider = <<registry[i].prov>>
             /\ (Normalize(req.provider_id[1]) \notin KeySet(registry) =>
                   /\ provider = <<>>
                   /\ ppc = "raised"
                   /\ err = "KeyError")
        ELSE /\ provider = FindProviderForSource(registry, req.source).ret
             /\ consulted = FindProviderForSource(registry, req.source).consulted
             /\ (provider = <<>> => ppc = "raised" /\ err = "ProviderError")

C16_Witness ==
    /\ Selected
    /\ request[1].provider_id = << <<"b">> >>
    /\ Len(registry) = 2
    /\ Accepts(1, request[1].source)
    /\ registry[2].key = <<"b">>
    /\ ~Accepts(2, request[1].source)
    /\ provider = <<registry[2].prov>>
    /\ consulted = <<>>

C18_RunLevelErrorAborts ==
    /\ (Selected /\ provider = <<>> =>
          /\ ppc = "raised"
          /\ err \in {"KeyError", "ProviderError"}
          /\ resolveCalls = 0)
    /\ (resolveCalls >= 1 /\ kind = "none" => ppc = "raised" /\ err = "ProviderError")
    /\ (err \in {"KeyError", "ProviderError"} =>
          /\ ppc = "raised"
          /\ options = NoOptions
          /\ idx = 0
          /\ results = <<>>
          /\ jpc = "idle"
          /\ \A i \in 1..MaxTracks : proc[i] = "none")

C18_Witness ==
    /\ ppc = "raised"
    /\ err = "ProviderError"
    /\ SelectionOk
    /\ resolveCalls = 1
    /\ kind = "none"
    /\ options = NoOptions

\* C19: a run whose selection and resolve succeeded has, once past the
\* construction, one DownloadOptions value that carries the cancellation handle
\* and the archive/advanced settings, and goes on to the downloads with it.
C19_OneOptionsForEveryItem ==
    (SelectionOk /\ kind # "none" /\ ppc # "options") =>
        /\ ppc # "raised"
        /\ options # NoOptions
        /\ {"cancel_event", "use_archive", "archive_path", "loudnorm"} \subseteq options[1]

\* C20 (as claimed): a download whose output contained an already-present line and
\* whose process exited with status 0 yields a result carrying the 'already
\* downloaded' warning, whatever the other options of the run are.
C20_AlreadyAlwaysWarned ==
    (jres.outcome = "returned" /\ jres.already /\ jres.exit_code = 0) =>
        results[idx].warning = "already"

\* C20 (amended): the job result's already-downloaded flag is the flag raised by the
\* lines read, whatever the exit status; a returned job that saw an already-present
\* line and was not cancelled yields a result carrying the 'already downloaded'
\* warning exactly when overwrite is off, and no warning when overwrite is on; a
\* cancelled one carries the cancellation warning instead.
C20_AlreadyWarnedUnlessOverwrite ==
    jres.outcome = "returned" =>
        /\ jres.already = already
        /\ Len(results) = idx
        /\ (jres.already /\ ~jres.cancelled =>
              /\ jres.exit_code = 0
              /\ results[idx].warning = IF overwrite THEN "none" ELSE "already")
        /\ (jres.already /\ jres.cancelled => results[idx].warning = "cancelled")
        /\ (results[idx].warning = "already" => jres.already /\ ~overwrite)

C20_Witness ==
    /\ kind = "track"
    /\ ~overwrite
    /\ jres.outcome = "returned"
    /\ jres.already
    /\ jres.exit_code = 0
    /\ ~jres.cancelled
    /\ results[1].warning = "already"

(***************************************************************************)
(* _download_collection from its entry: the resolved Collection is a tree  *)
(* and the Track list is built from it before the loop.                    *)
(***************************************************************************)
T1 == TrackOf(1, <<"url">>)
T2 == TrackOf(2, <<"url">>)
T3 == TrackOf(3, <<"url">>)

\* resolved Collections: empty, flat, nested first, last and in the middle, nested
\* twice, with an empty nested Collection, with the Tracks out of id order, with
\* nothing but empty nested Collections
Trees ==
    { CollectionOf(<<>>),
      CollectionOf(<<T1, T2>>),
      CollectionOf(<<CollectionOf(<<T1, T2>>), T3>>),
      CollectionOf(<<T1, CollectionOf(<<T2, T3>>)>>),
      CollectionOf(<<T1, CollectionOf(<<T2>>), T3>>),
      CollectionOf(<<CollectionOf(<<CollectionOf(<<T1>>), T2>>), T3>>),
      CollectionOf(<<CollectionOf(<<>>), T1>>),
      CollectionOf(<<CollectionOf(<<>>), CollectionOf(<<CollectionOf(<<>>)>>)>>),
      CollectionOf(<<T3, CollectionOf(<<T1>>), T2>>) }

\* tracks = []; _collect(collection)
Collect ==
    /\ ppc = "enter"
    /\ tracks' = Flatten(resolved)
    /\ ppc' = "loop"
    /\ UNCHANGED <<kind, resolved, env, ui, overwrite, hasCancel, cbMayRaise, selectionVars,
                   cancelSet, idx, results, err, observed, jobVars, proc, lastEv>>

InitFlatten ==
    /\ kind = "collection"
    /\ resolved \in Trees
    /\ tracks = <<>>
    /\ overwrite = FALSE
    /\ hasCancel \in BOOLEAN
    /\ cancelSet = FALSE
    /\ cbMayRaise = FALSE
    /\ ui = NoUi
    /\ env = [lines |-> "FlattenLines", budget |-> MaxLines,
              sigMayFail |-> FALSE, trace |-> FALSE]
    /\ StageStartAt("enter")

NextFlatten ==
    \/ Collect
    \/ SignalCancel
    \/ ChildWrite
    \/ ChildExit
    \/ LoopStep
    \/ JobStart
    \/ ReadLine
    \/ StopEscalate
    \/ StopReturn
    \/ JobFinish

SpecFlatten == InitFlatten /\ [][NextFlatten]_vars

(***************************************************************************)
(* Runs to their end.  A run is followed from its first line (it then ends *)
(* where the options value is built) and from `results = []` on, for a     *)
(* Track and for every Collection of Trees; the steps of the one thread of *)
(* Pipeline.run are taken as long as they can be, and a spawned process    *)
(* eventually exits.  Whether a run is ever started, whether the caller    *)
(* signals the handle and whether a child writes are left open.            *)
(***************************************************************************)
InitLive ==
    \/ /\ InitImport(BOOLEAN)
       /\ registry \in {<<>>} \cup {RegisterProvider(<<>>, prov).reg : prov \in RunProviders}
    \/ InitFlatten
    \/ InitCommand

NextLive ==
    \/ \E req \in Requests : RunStart(req)
    \/ Select
    \/ \E out \in ResolveOutcomes : Resolve(out)
    \/ BuildOptions
    \/ Collect
    \/ SignalCancel
    \/ ChildWrite
    \/ ChildExit
    \/ LoopStep
    \/ JobStart
    \/ ReadLine
    \/ StopEscalate
    \/ StopReturn
    \/ JobFinish

FairLive ==
    /\ WF_vars(Select)
    /\ WF_vars(\E out \in ResolveOutcomes : Resolve(out))
    /\ WF_vars(BuildOptions)
    /\ WF_vars(Collect)
    /\ WF_vars(LoopStep)
    /\ WF_vars(JobStart)
    /\ WF_vars(ReadLine)
    /\ WF_vars(StopEscalate)
    /\ WF_vars(StopReturn)
    /\ WF_vars(JobFinish)
    /\ WF_vars(ChildExit)

SpecLive == InitLive /\ [][NextLive]_vars /\ FairLive

\* C21 (as claimed): a run whose reference resolved to one Track and whose job exited
\* 0 with exactly one resolved-path signal and no already-present line returns
\* exactly one result, whose file list is that one path and which carries no warning.
C21_OnePathOneFile ==
    (kind = "track" /\ jres.outcome = "returned" /\ jres.exit_code = 0
        /\ Len(paths) = 1 /\ ~already) =>
        /\ ppc = "returned"
        /\ Len(results) = 1
        /\ results[1].files = <<paths[1]>>
        /\ results[1].warning = "none"

\* C21 (amended): a run whose reference resolved to one Track and whose job was not
\* cancelled and exited 0 with exactly one resolved-path signal and no
\* already-present line returns exactly one result, whose file list is that one path
\* and which carries no warning; had the job been cancelled, the one result carries
\* the same file list and the cancellation warning.
C21_OnePathOneFileUnlessCancelled ==
    (kind = "track" /\ jres.outcome = "returned" /\ jres.exit_code = 0
        /\ Len(paths) = 1 /\ ~already) =>
        /\ ppc = "returned"
        /\ Len(results) = 1
        /\ results[1].files = <<paths[1]>>
        /\ results[1].warning = IF jres.cancelled THEN "cancelled" ELSE "none"

C21_Witness ==
    /\ kind = "track"
    /\ ppc = "returned"
    /\ jres.outcome = "returned"
    /\ jres.exit_code = 0
    /\ ~jres.cancelled
    /\ lineLog = << <<"FILE:", "a.mp3">> >>
    /\ ~already
    /\ results = <<[item |-> tracks[1], files |-> << <<"a.mp3">> >>, warning |-> "none"]>>

\* the lines of the job in flight that run_ytdlp interpreted: all the lines read but
\* the one on which it saw the cancellation and stopped
Interpreted == 1..(Len(lineLog) - (IF jcancelled THEN 1 ELSE 0))

\* the events the callback received while line k was the last line read, in order
EventsAt(k) ==
    LET at(e) == e.line = k
        got == SelectSeq(evLog, at)
    IN [i \in 1..Len(got) |-> got[i].ev]

\* the number of signals a line produces: its percent, each path, the
\* already-present mark, the noteworthy message
SignalCount(line) ==
    (IF Pct(line) # <<>> THEN 1 ELSE 0) + Len(PathsOf(line))
        + (IF AlreadyOf(line) THEN 1 ELSE 0) + (IF PostOf(line) THEN 1 ELSE 0)

\* the events the percent and the noteworthy message of a line stand for
SignalEvents(line) ==
    (IF Pct(line) # <<>>
     THEN <<Deliver([phase |-> "download", msg |-> "percent",
                     progress |-> <<Pct(line)[1], PctDen>>])>> ELSE <<>>)
    \o (IF PostOf(line)
        THEN <<Deliver([phase |-> "postprocess", msg |-> "line",
                        progress |-> NoProgress])>> ELSE <<>>)

\* events are received in the order of the lines that caused them
InLineOrder == \A i, j \in 1..Len(evLog) : i <= j => evLog[i].line <= evLog[j].line

\* C22 (as claimed): once a line has been read and interpreted, and so before the
\* next line is read, the callback has received one event for every signal the line
\* produces (percent, each resolved path, already-present, noteworthy message), and
\* the events are received in line order.
C22_EverySignalAnEvent ==
    /\ InLineOrder
    /\ \A k \in Interpreted : Len(EventsAt(k)) >= SignalCount(lineLog[k])

\* C22 (amended): once a line has been read and interpreted, and so before the next
\* line is read, the callback has received exactly the events of the line's
\* progress percent and noteworthy message, the percent first; a resolved path and
\* an already-present mark cause no event (they are kept for the job result); the
\* events are received in line order.
C22_PercentAndMessageEvents ==
    /\ InLineOrder
    /\ \A k \in Interpreted : EventsAt(k) = SignalEvents(lineLog[k])

C22_Witness ==
    /\ jpc = "read"
    /\ lineLog = << <<"[ffmpeg]", "AUDIODL_PROGRESS:50%">>,
                    <<"file:", "b.mp3", "already been recorded in the archive">>,
                    <<"AUDIODL_PROGRESS:10%", "AUDIODL_PROGRESS:50%">> >>
    /\ Len(evLog) = 4
    /\ Len(EventsAt(1)) = 2
    /\ EventsAt(2) = <<>>
    /\ Len(EventsAt(3)) = 1

\* C23: when a line read carries several percent markers, the progress value of the
\* event that line causes is the value of the last marker on the line.
C23_LastMarkerWins ==
    \A k \in Interpreted :
        LET line == lineLog[k] IN
        MarkPositions(line) # {} =>
            /\ EventsAt(k) # <<>>
            /\ EventsAt(k)[1].progress
                   = <<MarkValue(line[Greatest(MarkPositions(line))])[1], PctDen>>

\* the line carries the archive phrase, in lower or in upper case, anywhere
HasArchivePhrase(line) ==
    \E i \in 1..Len(line) :
        line[i] \in {"already been recorded in the archive",
                     "ALREADY BEEN RECORDED IN THE ARCHIVE"}

\* C24: from the moment a line carrying 'already been recorded in the archive'
\* (whatever surrounds it, whatever its letter case) has been interpreted, the job's
\* already-downloaded flag is set, and it is still set after every later line and in
\* the result the job returns.
C24_ArchivePhraseSetsFlagForGood ==
    (\E k \in Interpreted : HasArchivePhrase(lineLog[k])) =>
        /\ already
        /\ (jres.outcome = "returned" => jres.already)

C24_Witness ==
    /\ lineLog = << <<"text">>,
                    <<"text", "ALREADY BEEN RECORDED IN THE ARCHIVE", "text">>,
                    <<"FILE:", "a.mp3">> >>
    /\ ~jcancelled
    /\ already
    /\ jres.outcome = "returned"
    /\ jres.already

\* the position at which a captured path first appeared
FirstAt(x) == Least({i \in 1..Len(paths) : paths[i] = x})

\* C25: the output path list of a returned job result, cancelled or not, holds every
\* captured path, each exactly once, in the order in which the paths first appeared.
C25_PathsOnceInFirstOrder ==
    jres.outcome = "returned" =>
        LET out == jres.output_paths IN
        /\ {out[i] : i \in 1..Len(out)} = {paths[i] : i \in 1..Len(paths)}
        /\ \A i, j \in 1..Len(out) : i < j => FirstAt(out[i]) < FirstAt(out[j])

C25_Witness ==
    /\ jres.outcome = "returned"
    /\ ~jres.cancelled
    /\ paths = << <<"a.mp3">>, <<"b.mp3", "already been recorded in the archive">>,
                  <<"a.mp3">> >>
    /\ jres.output_paths
          = << <<"a.mp3">>, <<"b.mp3", "already been recorded in the archive">> >>

\* a cancelled job that had captured the same path twice
C25_WitnessCancelled ==
    /\ jres.outcome = "returned"
    /\ jres.cancelled
    /\ paths = << <<"a.mp3">>, <<"a.mp3">> >>
    /\ jres.output_paths = << <<"a.mp3">> >>

\* C26: the source handed to the yt-dlp command of the item in flight is the Track's
\* url when the Track has one, and the Track's original source when it has none.
C26_UrlElseSource ==
    (ppc = "item" /\ jpc \in {"read", "grace1", "grace2", "wait"}) =>
        /\ (tracks[idx].url # <<>> => cmdSource = tracks[idx].url[1])
        /\ (tracks[idx].url = <<>> => cmdSource = tracks[idx].source)

C26_Witness ==
    /\ ppc = "item"
    /\ jpc = "read"
    /\ proc[idx] = "running"
    /\ tracks[idx].url = <<"url">>
    /\ tracks[idx].source = "reference"
    /\ cmdSource = "url"

\* a Track without url is downloaded from its original source
C26_WitnessNoUrl ==
    /\ ppc = "item"
    /\ jpc = "read"
    /\ proc[idx] = "running"
    /\ tracks[idx].url = <<>>
    /\ cmdSource = "reference"

\* the stages of a stop, in order
StopStages == <<"INT", "TERM", "KILL">>

\* where run_ytdlp stands when stage n may be sent: the stop request itself for the
\* first, the grace window of the stage before for the others
StageDue(n) == IF n = 1 THEN "read" ELSE IF n = 2 THEN "grace1" ELSE "grace2"

\* C27: every stop signal of a job is sent while the process has not been seen
\* exited, is the next stage of INT, TERM, KILL after the ones already sent, and is
\* sent at the stop request (the first) or when the grace window of the stage before
\* it has run out (the others); so a process seen exited gets no further signal, and
\* one already exited at the request gets none.
C27_StagedStop ==
    [][(ppc = "item" /\ signals' # signals) =>
          /\ proc[idx] = "running"
          /\ Len(signals) < Len(StopStages)
          /\ signals' = Append(signals, StopStages[Len(signals) + 1])
          /\ jpc = StageDue(Len(signals) + 1)
          /\ (Len(signals) = 0 => jcancelled' /\ ~jcancelled)]_vars

C27_Witness ==
    /\ jcancelled
    /\ signals = <<"INT", "TERM", "KILL">>
    /\ jpc = "wait"

\* the process had exited when the stop was requested: no signal at all
C27_WitnessExitedAtRequest ==
    /\ jcancelled
    /\ signals = <<>>
    /\ jpc = "wait"
    /\ proc[idx] = "exited"

\* the process was seen exited in the first grace window: no TERM, no KILL
C27_WitnessExitedInGrace ==
    /\ jcancelled
    /\ signals = <<"INT">>
    /\ jpc = "wait"

\* C28: when the delivery of a stop signal fails, at whatever stage, nothing is
\* raised: the run does not end in an exception, and the stop goes on exactly as
\* after a delivered signal, to the grace window before the next stage or, after
\* the kill attempt, to waiting for the process.
C28_FailedDeliverySwallowed ==
    [][(ppc = "item" /\ lost' # lost) =>
          /\ lost' = Append(lost, StopStages[Len(signals) + 1])
          /\ signals' = Append(signals, StopStages[Len(signals) + 1])
          /\ ppc' = "item"
          /\ err' = err
          /\ jres' = jres
          /\ jcancelled'
          /\ jpc' = IF Len(signals') = 1 THEN "grace1"
                    ELSE IF Len(signals') = 2 THEN "grace2" ELSE "wait"]_vars

\* no stage was delivered, all three were attempted, and the job still returned
C28_Witness ==
    /\ lost = <<"INT", "TERM", "KILL">>
    /\ signals = <<"INT", "TERM", "KILL">>
    /\ err = "none"
    /\ jres.outcome = "returned"
    /\ jres.cancelled

\* C30: once a line that both matches an already-present phrasing and carries a
\* resolved path has been interpreted, the path is among the captured paths and the
\* already-downloaded flag is set; a result the job returns has both.
C30_PathAndAlreadyBoth ==
    \A k \in Interpreted :
        (HasArchivePhrase(lineLog[k]) /\ PathsOf(lineLog[k]) # <<>>) =>
            /\ already
            /\ \A n \in 1..Len(PathsOf(lineLog[k])) :
                  /\ \E i \in 1..Len(paths) : paths[i] = PathsOf(lineLog[k])[n]
                  /\ jres.outcome = "returned" =>
                        \E i \in 1..Len(jres.output_paths) :
                            jres.output_paths[i] = PathsOf(lineLog[k])[n]
            /\ (jres.outcome = "returned" => jres.already)

C30_Witness ==
    /\ lineLog = << <<"file:", "b.mp3", "already been recorded in the archive">> >>
    /\ jres.outcome = "returned"
    /\ ~jres.cancelled
    /\ jres.already
    /\ jres.output_paths = << <<"b.mp3", "already been recorded in the archive">> >>

\* the positions of the Tracks in a resolved item: the entry indices from the root
RECURSIVE LeafPaths(_)
LeafPaths(item) ==
    IF item.t = "track" THEN {<<>>}
    ELSE UNION {{<<i>> \o p : p \in LeafPaths(item.entries[i])} :
                   i \in 1..Len(item.entries)}

\* the Track at a position
RECURSIVE LeafAt(_, _)
LeafAt(item, p) == IF p = <<>> THEN item ELSE LeafAt(item.entries[Head(p)], Tail(p))

\* position p comes before position q when reading the entries left to right and
\* expanding a nested Collection where it stands
RECURSIVE Before(_, _)
Before(p, q) ==
    /\ p # <<>>
    /\ q # <<>>
    /\ \/ Head(p) < Head(q)
       \/ Head(p) = Head(q) /\ Before(Tail(p), Tail(q))

\* C29: nothing is downloaded before the Collection has been flattened; from then
\* on, throughout the iteration, the Track list is the Tracks of the Collection read
\* left to right with every nested Collection expanded where it stands, and the
\* item count the proxy of the item in flight computes with is the length of that
\* list.
C29_FlattenedBeforeLoop ==
    /\ ppc = "enter" =>
          /\ idx = 0
          /\ results = <<>>
          /\ \A i \in DOMAIN proc : proc[i] = "none"
    /\ ppc # "enter" =>
          /\ Len(tracks) = Cardinality(LeafPaths(resolved))
          /\ \A p \in LeafPaths(resolved) :
                tracks[1 + Cardinality({q \in LeafPaths(resolved) : Before(q, p)})]
                   = LeafAt(resolved, p)
    /\ idx >= 1 =>
          /\ Total(tracks) = Cardinality(LeafPaths(resolved))
          /\ \A p \in UnitFractions :
                Remap(idx, Total(tracks), p)[2] = Cardinality(LeafPaths(resolved)) * p[2]

C29_Witness ==
    /\ resolved = CollectionOf(<<T3, CollectionOf(<<T1>>), T2>>)
    /\ tracks = <<T3, T1, T2>>
    /\ idx = 2
    /\ ppc = "item"
    /\ lastEv # NoEvent
    /\ lastEv.local = <<50, PctDen>>
    /\ Total(tracks) = 3

\* the values of the stable markers a line carries
MarkerValues(line) ==
    {10 : i \in {j \in 1..Len(line) : line[j] = "AUDIODL_PROGRESS:10%"}}
        \cup {50 : i \in {j \in 1..Len(line) : line[j] = "AUDIODL_PROGRESS:50%"}}

\* the line carries the classic "[download] 20%" form
HasClassicPercent(line) ==
    \E i \in 1..(Len(line) - 1) : line[i] = "[download]" /\ line[i + 1] = "20%"

\* the progress-percent events received while line k was the last line read
PercentEventsAt(k) ==
    LET isPercent(e) == e.msg = "percent" IN SelectSeq(EventsAt(k), isPercent)

\* C31: an interpreted line causes at most one progress-percent event; on a line
\* carrying the stable marker the event's value is a marker's value, whatever
\* classic percent the line also carries; the classic percent is the value only on
\* a line without marker; a line with neither causes no percent event.
C31_MarkerBeforeFallback ==
    \A k \in Interpreted :
        LET line == lineLog[k]
            pe == PercentEventsAt(k)
        IN /\ Len(pe) <= 1
           /\ MarkerValues(line) # {} =>
                 /\ Len(pe) = 1
                 /\ pe[1].progress[1] \in MarkerValues(line)
                 /\ pe[1].progress[2] = PctDen
           /\ (MarkerValues(line) = {} /\ HasClassicPercent(line)) =>
                 /\ Len(pe) = 1
                 /\ pe[1].progress = <<20, PctDen>>
           /\ (MarkerValues(line) = {} /\ ~HasClassicPercent(line)) => pe = <<>>

\* a line with the classic percent first and the marker after it: the marker's value
C31_Witness ==
    /\ lineLog = << <<"[download]", "20%", "AUDIODL_PROGRESS:50%">> >>
    /\ ~jcancelled
    /\ Len(PercentEventsAt(1)) = 1
    /\ PercentEventsAt(1)[1].progress = <<50, PctDen>>

\* a line without marker: the classic percent
C31_WitnessFallback ==
    /\ lineLog = << <<"text", "[download]", "20%">> >>
    /\ ~jcancelled
    /\ Len(PercentEventsAt(1)) = 1
    /\ PercentEventsAt(1)[1].progress = <<20, PctDen>>

\* the requested format of the run, as the caller wrote it
Asked == request[1].audio_format

\* the requested quality with surrounding blanks removed, "0" when none is left
AskedQuality ==
    LET q == request[1].audio_quality IN
    IF q \in {<<>>, <<" ">>} THEN <<"0">>
    ELSE IF q = <<" ", "5">> THEN <<"5">> ELSE q

\* C32: the command of a started job carries audio format 'best' and the selector
\* preferring streams of the requested container exactly when 'best', 'm4a' or
\* 'opus' was requested; for 'mp3' (also by default) it carries audio format 'mp3'
\* with the requested quality; it carries 'mp3' for no other request.
C32_ConvertOnlyForMp3 ==
    (ppc = "item" /\ jpc \in {"read", "grace1", "grace2", "wait"}) =>
        /\ Asked \in {Best, <<"B", "e", "s", "t", " ">>} =>
              cmdFormat = [audio_format |-> Best, audio_quality |-> <<"0">>,
                           selector |-> <<"251/140/139/bestaudio/best">>]
        /\ Asked = M4a =>
              cmdFormat = [audio_format |-> Best, audio_quality |-> <<"0">>,
                           selector |-> <<"140/139/bestaudio[ext=m4a]/bestaudio/best">>]
        /\ Asked = Opus =>
              cmdFormat = [audio_format |-> Best, audio_quality |-> <<"0">>,
                           selector |-> <<"251/bestaudio[ext=opus]/bestaudio/best">>]
        /\ Asked \in {Mp3, <<" ", "M", "P", "3">>, <<>>} =>
              /\ cmdFormat.audio_format = Mp3
              /\ cmdFormat.audio_quality = AskedQuality
        /\ cmdFormat.audio_format = Mp3 => Asked \in {Mp3, <<" ", "M", "P", "3">>, <<>>}
        /\ cmdFormat.audio_format = Best =>
              Asked \in {Best, <<"B", "e", "s", "t", " ">>, M4a, Opus}

C32_Witness ==
    /\ ppc = "item"
    /\ jpc = "read"
    /\ proc[idx] = "running"
    /\ Asked = M4a
    /\ cmdFormat.audio_format = Best
    /\ cmdFormat.selector = <<SelM4a>>

\* mp3 requested with a quality: the converting target and that quality
C32_WitnessMp3 ==
    /\ ppc = "item"
    /\ jpc = "read"
    /\ Asked = <<" ", "M", "P", "3">>
    /\ request[1].audio_quality = <<" ", "5">>
    /\ cmdFormat.audio_format = Mp3
    /\ cmdFormat.audio_quality = <<"5">>

\* the stage of Pipeline.run a position belongs to: 1 SelectProvider, 2 Resolve,
\* 3 the options value, 4 Download (flattening included), 5 the end
StageNo(pos) ==
    CASE pos = "idle" -> 0
      [] pos = "select" -> 1
      [] pos = "resolve" -> 2
      [] pos = "options" -> 3
      [] pos \in {"enter", "loop", "item"} -> 4
      [] pos \in {"returned", "raised"} -> 5

\* C33: a run never steps back to an earlier stage and enters a stage only from the
\* stage before it (or ends with an error instead); and every run that has been
\* started, given that each spawned process eventually exits, eventually has
\* returned (completed or cancelled) or raised.
C33_RunTerminatesInOrder ==
    /\ [][/\ StageNo(ppc) <= StageNo(ppc')
          /\ StageNo(ppc') \in {StageNo(ppc), StageNo(ppc) + 1, 5}
          /\ (StageNo(ppc) = 5 => ppc' = ppc)]_vars
    /\ (ppc # "idle") ~> (ppc \in {"returned", "raised"})

\* a Collection of three Tracks downloaded to the end
C33_Witness ==
    /\ kind = "collection"
    /\ ppc = "returned"
    /\ Len(tracks) = 3
    /\ Len(results) = 3
    /\ \A i \in 1..3 : proc[i] = "exited"

\* a run followed from its first line that ended with an error
C33_WitnessRaised ==
    /\ request # NoRequest
    /\ resolveCalls = 1
    /\ ppc = "raised"

\* a run that ended cancelled
C33_WitnessCancelled ==
    /\ ppc = "returned"
    /\ cancelSet
    /\ Len(results) < Len(tracks)

\* the paths the first n lines read carry, in order
RECURSIVE PathsUpTo(_)
PathsUpTo(n) == IF n = 0 THEN <<>> ELSE PathsUpTo(n - 1) \o PathsOf(lineLog[n])

\* C34: when run_ytdlp has seen the cancellation on a line, that line is counted
\* among the raw lines and has had no effect: the captured paths and the
\* already-downloaded flag are those of the lines before it, the only event of
\* that line is the 'cancelling' notice, any event after it is the 'cancelled'
\* notice, and no completion event is ever received.
C34_CancelLineNotInterpreted ==
    jcancelled =>
        LET n == Len(lineLog) IN
        /\ n >= 1
        /\ rawLines = n
        /\ paths = PathsUpTo(n - 1)
        /\ already = (\E k \in 1..(n - 1) : AlreadyOf(lineLog[k]))
        /\ EventsAt(n) = <<[phase |-> "download", msg |-> "cancelling",
                            progress |-> NoProgress]>>
        /\ \A i \in 1..Len(evLog) :
              /\ evLog[i].line > n => evLog[i].ev.msg = "cancelled"
              /\ evLog[i].ev.msg # "completed"
        /\ jres.outcome = "returned" =>
              /\ jres.cancelled
              /\ jres.output_paths = Dedupe(PathsUpTo(n - 1))
              /\ evLog[Len(evLog)].ev.msg = "cancelled"

\* the cancellation was seen on a line carrying a path, a phrase and nothing else
\* was read before it: nothing captured, the process had exited with status 0
C34_Witness ==
    /\ jcancelled
    /\ lineLog = << <<"file:", "b.mp3", "already been recorded in the archive">> >>
    /\ paths = <<>>
    /\ ~already
    /\ jres.outcome = "returned"
    /\ jres.exit_code = 0
    /\ Len(evLog) = 3

\* local fractions a provider may report, inside and outside [0,1]
AnyFractions == UnitFractions \cup {<<0 - 10, PctDen>>, <<PctDen + 50, PctDen>>}

\* C35: while item i of the n flattened Tracks is in flight, for every local
\* fraction, also below 0 or above 1, the fraction the proxy emits lies in
\* [(i-1)/n, i/n]: a value below 0 is emitted as (i-1)/n and a value above 1 as i/n;
\* an event without fraction leaves the proxy as it entered it.
C35_ProxyClampsIntoWindow ==
    (kind = "collection" /\ idx >= 1) =>
        /\ \A p \in AnyFractions :
              /\ InWindow(Emitted(p), idx, Len(tracks))
              /\ Leq(p, <<0, 1>>) => Eq(Emitted(p), <<idx - 1, Len(tracks)>>)
              /\ Leq(<<1, 1>>, p) => Eq(Emitted(p), <<idx, Len(tracks)>>)
        /\ \A m \in {"start", "cancelling", "completed"} :
              ProgressProxy(Event("download", m, NoProgress), idx, Total(tracks))
                 = Event("download", m, NoProgress)

\* the resolved item is a Collection without a single Track in it
NoTracks == IsCollection(resolved) /\ LeafPaths(resolved) = {}

\* C36: the download stage of a Collection without Tracks (from the call of
\* _download_collection on) starts no process and no yt-dlp job, hands no event to
\* the caller, keeps the result list empty, computes a progress divisor that is not
\* zero, never raises, and ends by returning the empty list.
C36_NoTracksNoDownload ==
    /\ []((NoTracks /\ ppc \in {"enter", "loop", "item", "returned"}) =>
            /\ ppc # "item"
            /\ idx = 0
            /\ results = <<>>
            /\ err = "none"
            /\ jpc = "idle"
            /\ \A i \in DOMAIN proc : proc[i] = "none"
            /\ lastEv = NoEvent
            /\ (ppc # "enter" => tracks = <<>> /\ Total(tracks) # 0))
    /\ [][(NoTracks /\ ppc \in {"enter", "loop"}) => ppc' \in {"loop", "returned"}]_vars
    /\ (NoTracks /\ ppc = "enter") ~> (ppc = "returned" /\ results = <<>>)

\* the Collection holding only empty Collections has been gone through
C36_Witness ==
    /\ resolved = CollectionOf(<<CollectionOf(<<>>), CollectionOf(<<CollectionOf(<<>>)>>)>>)
    /\ ppc = "returned"
    /\ results = <<>>
    /\ idx = 0

\* the empty Collection has been gone through
C36_WitnessEmpty ==
    /\ resolved = CollectionOf(<<>>)
    /\ ppc = "returned"
    /\ results = <<>>

\* C37: from the flattening on, the result list is as long as the number of
\* downloads that have ended with a result, which is the number of downloads
\* started or one less while a download is in flight; its j-th result is the result
\* of the j-th Track of the list, and no Track has two results.
C37_ResultsPrefixOfTracks ==
    ppc \in {"loop", "item", "returned", "raised"} /\ kind # "none" =>
        /\ Len(results) <= idx
        /\ idx <= Len(tracks)
        /\ Len(results) >= idx - 1
        /\ (ppc = "item" => Len(results) = idx - 1)
        /\ (ppc = "loop" => Len(results) = idx)
        /\ Len(results) <= Cardinality({i \in DOMAIN proc : proc[i] # "none"})
        /\ \A j \in 1..Len(results) :
              /\ results[j].item = tracks[j]
              /\ \A k \in 1..Len(results) : results[k].item = results[j].item => k = j

\* two of three Tracks have their result, the third download is in flight
C37_Witness ==
    /\ resolved = CollectionOf(<<T3, CollectionOf(<<T1>>), T2>>)
    /\ ppc = "item"
    /\ idx = 3
    /\ Len(results) = 2
    /\ results[1].item = T3
    /\ results[2].item = T1

\* the identifier each written form stands for ("": none)
Canonical(id) ==
    CASE id \in {<<"a">>, <<"A", " ">>, <<" ", "a">>} -> "a"
      [] id = <<"b">> -> "b"
      [] id = <<"c">> -> "c"
      [] OTHER -> ""

\* the positions of the registered providers whose identifier stands for the same
Holders(reg, id) == {i \in 1..Len(reg) : Canonical(reg[i].prov.id) = Canonical(id)}

\* C38: no two registered providers have identifiers that differ only in case or
\* surrounding whitespace, and none has an identifier that is blank; a
\* registration under a blank identifier, or under a written form of an identifier
\* already registered, raises ValueError and leaves the registry as it was, any
\* other registration appends the provider; get_provider returns the provider
\* registered under any written form of the identifier asked for, and raises
\* KeyError when there is none.
C38_IdsComparedNormalized ==
    /\ [](\A i \in 1..Len(registry) :
             /\ Canonical(registry[i].prov.id) # ""
             /\ Holders(registry, registry[i].prov.id) = {i})
    /\ [][regOp'.op = "register" =>
             IF Canonical(regOp'.raw) = "" \/ Holders(registry, regOp'.raw) # {}
             THEN /\ registry' = registry
                  /\ regOp'.err.type = "ValueError"
             ELSE /\ Len(registry') = Len(registry) + 1
                  /\ SubSeq(registry', 1, Len(registry)) = registry
                  /\ registry'[Len(registry')].prov.id = regOp'.raw
                  /\ regOp'.err = NoError]_vars
    /\ [][regOp'.op = "get" =>
             /\ registry' = registry
             /\ IF Holders(registry, regOp'.raw) # {} /\ Canonical(regOp'.raw) # ""
                THEN /\ regOp'.err = NoError
                     /\ \E i \in Holders(registry, regOp'.raw) :
                           regOp'.ret = <<registry[i].prov>>
                ELSE /\ regOp'.err.type = "KeyError"
                     /\ regOp'.ret = <<>>]_vars

\* registered as " a" and found as "A "
C38_Witness ==
    /\ Len(registry) >= 1
    /\ registry[1].prov.id = <<" ", "a">>
    /\ regOp.op = "get"
    /\ regOp.raw = <<"A", " ">>
    /\ regOp.ret = <<registry[1].prov>>
    /\ Len(registry) = 2

\* a blank identifier has been refused by a registry holding providers
C38_WitnessBlank ==
    /\ Len(registry) = 2
    /\ regOp.op = "register"
    /\ regOp.raw = <<" ">>
    /\ regOp.err.type = "ValueError"

(***************************************************************************)
(* The Tk front-end (ui/tkinter/app.py).  The handlers of the two buttons  *)
(* and the queue drain run one at a time in the Tk main thread; a worker   *)
(* thread runs _run_pipeline.  A stop request is remembered in the flag by *)
(* the number of workers started when it was made, and a worker remembers  *)
(* the requests its reads of the flag have seen.  Log and progress events  *)
(* of the queue change widgets only and are left out.                      *)
(***************************************************************************)
\* AudioDLTkApp.__init__: no worker, the flag clear, "Descargar" enabled, "Parar"
\* disabled, the queue empty
NewApp == [flag |-> {}, workers |-> <<>>, btnStart |-> "normal", btnStop |-> "disabled",
           queue |-> <<>>]

\* a thread just started on _run_pipeline
NewWorker == [pc |-> "run", saw |-> {}]

\* threading.Thread.is_alive(): from start() until the target has returned
IsAlive(w) == w.pc \in {"run", "exiting"}

\* self._worker and self._worker.is_alive()
WorkerAlive(u) == u.workers # <<>> /\ IsAlive(u.workers[Len(u.workers)])

\* _set_running
SetRunning(u, running) ==
    [u EXCEPT !.btnStart = IF running THEN "disabled" ELSE "normal",
              !.btnStop = IF running THEN "normal" ELSE "disabled"]

\* _on_start; valid: source and output folder are filled in
OnStartKeepFlag(u, valid) ==
    IF WorkerAlive(u) \/ ~valid THEN u
    ELSE [SetRunning(u, TRUE) EXCEPT !.workers = Append(u.workers, NewWorker)]
OnStart(u, valid) ==
    IF WorkerAlive(u) THEN u
    ELSE IF ~valid THEN u
    ELSE [SetRunning(u, TRUE) EXCEPT !.flag = {}, !.workers = Append(u.workers, NewWorker)]

\* _on_stop: self._stop_flag.set()
OnStop(u) == [u EXCEPT !.flag = u.flag \cup {Len(u.workers)}]

\* Pipeline._is_cancelled and run_ytdlp's check, in worker k: a read of the flag
WorkerReads(u, k) == [u EXCEPT !.workers[k].saw = u.workers[k].saw \cup u.flag]

\* the end of _run_pipeline in worker k: the flag is read once more and one event
\* is put on the queue
WorkerEnds(u, k, outcome) ==
    [u EXCEPT !.workers[k].pc = "exiting",
              !.workers[k].saw = IF outcome = "returned"
                                 THEN u.workers[k].saw \cup u.flag
                                 ELSE u.workers[k].saw,
              !.queue = Append(u.queue, IF outcome = "raised" THEN "error" ELSE "done")]

\* _drain_ui_queue: every queued event is handled; 'done' and 'error' re-enable
\* the form
DrainUiQueue(u) == IF u.queue = <<>> THEN u ELSE [SetRunning(u, FALSE) EXCEPT !.queue = <<>>]

InitTk ==
    /\ InitProcess({TRUE}, NewApp)
    /\ registry = <<>>

TkStep(u) ==
    /\ ui' = u
    /\ UNCHANGED <<downloadVarsButUi, selectionVars>>

\* a click on "Descargar"
PressStart ==
    /\ ui.btnStart = "normal"
    /\ Len(ui.workers) < MaxRuns
    /\ \E valid \in BOOLEAN : TkStep(OnStart(ui, valid))

\* a click on "Parar"
PressStop ==
    /\ ui.btnStop = "normal"
    /\ TkStep(OnStop(ui))

\* the 100 ms timer of the main thread
Drain ==
    /\ ui # NoUi
    /\ TkStep(DrainUiQueue(ui))

WorkerRead ==
    \E k \in 1..Len(ui.workers) :
        /\ ui.workers[k].pc = "run"
        /\ TkStep(WorkerReads(ui, k))

WorkerFinish ==
    \E k \in 1..Len(ui.workers), outcome \in {"returned", "raised"} :
        /\ ui.workers[k].pc = "run"
        /\ TkStep(WorkerEnds(ui, k, outcome))

\* the target has returned: the thread is no longer alive
WorkerExit ==
    \E k \in 1..Len(ui.workers) :
        /\ ui.workers[k].pc = "exiting"
        /\ TkStep([ui EXCEPT !.workers[k].pc = "dead"])

NextTk ==
    \/ PressStart
    \/ PressStop
    \/ Drain
    \/ WorkerRead
    \/ WorkerFinish
    \/ WorkerExit

SpecTk == InitTk /\ [][NextTk]_vars

\* the workers alive
Alive == {k \in 1..Len(ui.workers) : IsAlive(ui.workers[k])}

\* C39: at most one worker thread is alive; a start request made while a worker is
\* alive creates no worker; when a worker is created the stop flag is clear; no
\* read of the flag by a worker ever sees a stop requested before that worker was
\* started; and a step of a worker leaves the flag as it is.
C39_OneWorkerFreshFlag ==
    /\ [](Cardinality(Alive) <= 1)
    /\ [](\A k \in 1..Len(ui.workers) : ui.workers[k].saw \subseteq {k})
    /\ [](\A k \in Alive : ui.flag \subseteq {k})
    /\ [][/\ (Alive # {} => Len(ui'.workers) = Len(ui.workers))
          /\ (Len(ui'.workers) # Len(ui.workers) =>
                /\ Len(ui'.workers) = Len(ui.workers) + 1
                /\ ui'.flag = {}
                /\ ui'.workers[Len(ui'.workers)] = NewWorker)
          /\ ((\E k \in 1..Len(ui.workers) : ui'.workers[k] # ui.workers[k]) =>
                ui'.flag = ui.flag)]_vars

\* a stop was requested after the first run had ended and again during the second
\* run; the second worker has seen only the latter
C39_Witness ==
    /\ Len(ui.workers) = 2
    /\ ui.workers[1].pc = "dead"
    /\ ui.workers[1].saw = {}
    /\ ui.workers[2].pc = "run"
    /\ ui.workers[2].saw = {2}

\* "Descargar" was enabled and clicked while the worker that had reported its end
\* was still alive: nothing started
C39_WitnessRefused ==
    /\ Len(ui.workers) = 1
    /\ ui.workers[1].pc = "exiting"
    /\ ui.btnStart = "normal"
    /\ ui.queue = <<>>

====
